---- MODULE Spec2Model ----
(***************************************************************************)
(* rpage: the run execution and streaming pipeline.                        *)
(*                                                                         *)
(* The server side is the POST /api/run-automation handler of server.cjs   *)
(* with the database models it calls; the client side is runAutomationById *)
(* with the stores it updates.  One Node process runs the handlers on a    *)
(* single event loop, so a handler runs without interruption from one      *)
(* await to the next: each action below is one such stretch of code.  The  *)
(* only await of the run handler is the invocation of the script, whose    *)
(* own awaits separate its logger calls.                                   *)
(***************************************************************************)
EXTENDS Integers, Sequences, FiniteSets, TLC

\* ------------------------------------------------------------------ bounds
MaxRuns == 2
MaxLogs == 1
MaxRows == 3
MaxDays == 2
MaxArg == 2
MaxLines == 2
MaxChunk == 7
MaxCalls == 3
MaxTime == 3
MaxLogRows == 3

Runs == 1..MaxRuns

\* Automation "1" is the sample row the database inserts at start-up; "2" is
\* an id that has no row (the handler takes any id from the request body).
AutomationIds == {"1", "2"}
Absent == "absent"

\* What a submitted script text is: empty/missing, text that does not compile,
\* or text that defines run().
Scripts == {"empty", "syntax", "ok"}
\* How run() settles: it resolves, it throws an Error, it throws null.
Outcomes == {"resolve", "throw", "throwNull"}
\* What run() resolves to: nothing (undefined), a value without a screenshot
\* field, a value with a screenshot field (and the file's screenshotPath), a
\* value JSON.stringify throws on (one that refers to itself, such as a page
\* or browser object).
Results == {"none", "plain", "shot", "circular"}

\* The clock counts milliseconds; Day is the length of a day on it, scaled down.
Day == 2
\* settings.keepOutputDays || 7, and the row the database inserts at start-up.
DefaultDays == 7
InitialKeepOutputDays == 7
\* parseInt(req.query.page) || 1, parseInt(req.query.limit) || 20
DefaultPage == 1
DefaultLimit == 20
\* Values of a query parameter or of a setting; 0 is also what a missing
\* query parameter parses to under ||.
Args == 0..MaxArg
Days == 0..MaxDays
ArtifactTypes == {"screenshot", "text"}

\* The browser's clock counts in units of CACHE_TTL: the grouping cache is
\* valid for 3 s, a refresh is skipped for 5 s, a cached response is served
\* for 30 s; the durations are scaled down and keep their order.
CACHE_TTL == 1
REFRESH_WINDOW == 2
CACHE_EXPIRY == 3
\* Sizes of a page and of the priority slice, scaled down.
PAGE_SIZE == 2
PRIORITY_FILES_COUNT == 1
\* PAGE_SIZE of the logs store, scaled like the one of the outputs store.
LOGS_PAGE_SIZE == 2

VARIABLES
    automations,  \* automations table: id -> status, or Absent when no row
    logs,         \* logs table: set of rows, id is the primary key
    outputs,      \* outputs table: set of rows, id is the primary key
    now,          \* Date.now(), counted in the milliseconds in which a row is written
    runs,         \* per submission: the handler's and the client's position
    last,         \* the settlement of run() handled by the latest step, if any
    cstatus,      \* client automations store: id -> status
    cdirty,       \* client store changed since it was last saved to the server
    keepOutputDays, \* settings table: the value of the keepOutputDays row
    reply,        \* the answer of the latest request to a store endpoint
    lineText,     \* what the script passes to the logger on its n-th call
    reader,       \* the browser's reader of one run's stream
    outputFiles,          \* store: artifacts loaded page by page
    priorityOutputFiles,  \* store: the priority slice
    parsedDataCache,      \* ids whose data is in the parsed-data cache
    outputsByTypeCache,   \* the cached grouping and its timestamp
    outputsByType,        \* the value of the derived grouped-by-type store
    isLoadingOutputs,     \* store
    isPriorityLoaded,     \* store
    hasMoreOutputs,       \* store
    currentPage,          \* store
    lastOutputsRefresh,   \* store
    apiCache,             \* fetchAPI's response cache: one entry per endpoint
    clock,                \* the browser's Date.now()
    tasks,                \* calls of the output store that await a timer or an answer
    ncalls,               \* number of calls made so far
    requests,             \* requests that fetchAPI sent to the server, in order
    served,               \* how the latest fetchAPI call was answered
    citems,               \* client automations store: the list, as id and name
    returned,             \* what the latest call of the automations API returned
    parseQueue,           \* the queue of background parsing, in array order
    isProcessingQueue,    \* the flag processParseQueue holds until its timer
    parsedValue,          \* the values of the parsed-data cache set by getParsedData
    gave,                 \* what the latest getParsedData call returned
    logEntries,           \* logs store: the entries loaded page by page
    isLoadingLogs,        \* logs store
    hasMoreLogs,          \* logs store
    logsPage              \* logs store: its currentPage

catalogVars == <<citems, returned>>

browserState ==
    <<outputFiles, priorityOutputFiles, parsedDataCache, outputsByTypeCache,
      outputsByType, isLoadingOutputs, isPriorityLoaded, hasMoreOutputs,
      currentPage, lastOutputsRefresh, apiCache, clock, tasks, ncalls,
      requests, served>>

parseVars == <<parseQueue, isProcessingQueue, parsedValue, gave>>

logViewVars == <<logEntries, isLoadingLogs, hasMoreLogs, logsPage>>

browserVars == <<browserState, catalogVars, parseVars, logViewVars>>

coordinatorVars ==
    <<automations, logs, now, runs, last, cstatus, cdirty, reply, lineText,
      reader>>

vars == <<automations, logs, outputs, now, runs, last, cstatus, cdirty,
          keepOutputDays, reply, lineText, reader, browserVars>>

\* ------------------------------------------------------------ stream events
StatusEvent == [type |-> "status", success |-> FALSE, line |-> 0]
LogEvent(n) == [type |-> "log", success |-> FALSE, line |-> n]
CompleteEvent(ok) == [type |-> "complete", success |-> ok, line |-> 0]

HasComplete(stream) == \E i \in 1..Len(stream) : stream[i].type = "complete"

\* The lines captured by the logger so far, in call order.
Lines(n) == [i \in 1..n |-> i]

\* The log events of a stream, as the sequence of their lines.
RECURSIVE LogLines(_)
LogLines(stream) ==
    IF stream = <<>> THEN <<>>
    ELSE IF Head(stream).type = "log"
         THEN <<Head(stream).line>> \o LogLines(Tail(stream))
         ELSE LogLines(Tail(stream))

FreeRun ==
    [pc |-> "free", id |-> "1", script |-> "ok", http |-> 0,
     stream |-> <<>>, ended |-> FALSE, nlogged |-> 0, cpc |-> "none",
     screenshotFilename |-> "none", sent |-> "none"]

NoSettle == [run |-> 0, outcome |-> "none", result |-> "none"]

\* --------------------------------------------------------- database models
getById(auts, id) == auts[id] # Absent

updateStatus(auts, id, status) ==
    IF auts[id] # Absent THEN [auts EXCEPT ![id] = status] ELSE auts

LogIds(lg) == {l.id : l \in lg}
OutputIds(outs) == {o.id : o \in outs}

\* INSERT INTO logs: fails on a duplicate primary key and on a foreign key
\* without an automation row.
LogModel_create(lg, auts, entry) ==
    IF entry.id \in LogIds(lg) \/ auts[entry.automationId] = Absent
    THEN [ok |-> FALSE, logs |-> lg]
    ELSE [ok |-> TRUE, logs |-> lg \cup {entry}]

OutputModel_create(outs, auts, output) ==
    IF output.id \in OutputIds(outs) \/ auts[output.automationId] = Absent
    THEN [ok |-> FALSE, outputs |-> outs]
    ELSE [ok |-> TRUE, outputs |-> outs \cup {output}]

\* saveOutput with the default of its type parameter in place of the type the
\* caller passes.
saveOutputAsText(outs, auts, automationId, type, t) ==
    OutputModel_create(outs, auts,
        [id |-> t, automationId |-> automationId, type |-> "text",
         timestamp |-> t]).outputs

\* saveOutput catches the error of create and returns null.
saveOutput(outs, auts, automationId, type, t) ==
    OutputModel_create(outs, auts,
        [id |-> t, automationId |-> automationId, type |-> type,
         timestamp |-> t]).outputs

\* ------------------------------------------------------------ run handler
\* sendEvent is res.write: nothing reaches a response that was ended.
sendEventAfterEnd(run, data) == [run EXCEPT !.stream = Append(@, data)]

sendEvent(run, data) ==
    IF run.ended THEN run ELSE [run EXCEPT !.stream = Append(@, data)]

\* if (!script) return res.status(400)
RejectsNothing(script) == FALSE

Rejects(script) == script = "empty"

\* The file name a logged text gives: the one in a line that says 'Taking
\* screenshot and saving to: <path>.png', none in any other text.
HintOf(text) == IF text = "shot" THEN "log.png" ELSE "none"

\* The file name at the end of result.screenshotPath.
NameOf(result) == IF result = "shot" THEN "result.png" ELSE "none"

\* logCapture up to logs.push: the hint of the line, if it has one, becomes
\* screenshotFilename.
capture(run) ==
    [run EXCEPT !.nlogged = @ + 1,
                !.screenshotFilename =
                    IF HintOf(lineText[run.nlogged + 1]) # "none"
                    THEN HintOf(lineText[run.nlogged + 1]) ELSE @]

\* logCapture that writes its event ahead of the latest one on the stream.
logCaptureAhead(run) ==
    LET n == Len(run.stream)
    IN  [capture(run) EXCEPT
            !.stream = IF n < 2 THEN Append(@, LogEvent(run.nlogged + 1))
                       ELSE SubSeq(@, 1, n - 1)
                            \o <<LogEvent(run.nlogged + 1), @[n]>>]

\* logCapture: push the line on the run's logs array, then sendEvent.
logCapture(run) == sendEvent(capture(run), LogEvent(run.nlogged + 1))

\* if (result && result.screenshotPath && !screenshotFilename)
screenshotFromResult(run, result) ==
    IF NameOf(result) # "none" /\ run.screenshotFilename = "none"
    THEN [run EXCEPT !.screenshotFilename = NameOf(result)]
    ELSE run

\* The status event without which the handler would start the stream with
\* whatever the script logs first.
OpenStreamSilently(run) == [run EXCEPT !.http = 200]

\* res.setHeader(...); sendEvent({type: 'status', status: 'running'})
OpenStream(run) == sendEvent([run EXCEPT !.http = 200], StatusEvent)

\* The outer catch: res.status(500).json(...) on a response whose headers are
\* already sent throws ERR_HTTP_HEADERS_SENT, so the handler's promise rejects
\* with nothing written and the response is never ended.
OuterCatch(run) == [run EXCEPT !.pc = "aborted"]

\* sendEvent({type: 'complete', ...}); res.end()
Complete(run, ok) ==
    [sendEvent(run, CompleteEvent(ok)) EXCEPT
        !.ended = TRUE, !.pc = "done",
        !.sent = IF ok /\ ~run.ended THEN run.screenshotFilename ELSE @]

\* The inner catch: status failed, a failed log entry, the terminal event.
\* automation.name throws when the row is missing and error.message throws
\* when the thrown value is null; both leave through the outer catch, as does
\* a failing insert.
FailurePath(r, run, auts, lg, outs, thrownNull, t) ==
    LET auts1 == updateStatus(auts, run.id, "failed")
        entry == [id |-> t, automationId |-> run.id, status |-> "failed",
                  output |-> [error |-> TRUE, lines |-> Lines(run.nlogged)],
                  run |-> r, by |-> "server"]
        created == LogModel_create(lg, auts1, entry)
    IN  IF ~getById(auts1, run.id) \/ thrownNull \/ ~created.ok
        THEN [run |-> OuterCatch(run), automations |-> auts1,
              logs |-> lg, outputs |-> outs]
        ELSE [run |-> Complete(run, FALSE), automations |-> auts1,
              logs |-> created.logs, outputs |-> outs]

\* The code after the script resolved: format the output, store the
\* screenshot, status completed, a completed log entry, the terminal event.
\* t1 is Date.now() in the try block, t2 Date.now() in the catch block.
SuccessPath(r, run, result, auts, lg, outs, t1, t2) ==
    LET exists == getById(auts, run.id)
        outs1 == IF result = "shot" /\ exists
                 THEN saveOutput(outs, auts, run.id, "screenshot", t1)
                 ELSE outs
        auts1 == updateStatus(auts, run.id, "completed")
        entry == [id |-> t1, automationId |-> run.id, status |-> "completed",
                  output |-> [error |-> FALSE, lines |-> Lines(run.nlogged)],
                  run |-> r, by |-> "server"]
        created == LogModel_create(lg, auts1, entry)
        run1 == screenshotFromResult(run, result)
    IN  IF result = "circular"
        THEN FailurePath(r, run, auts, lg, outs, FALSE, t1)
        ELSE IF result # "none" /\ ~exists
        THEN [run |-> [run1 EXCEPT !.pc = "aborted"], automations |-> auts,
              logs |-> lg, outputs |-> outs]
        ELSE IF ~getById(auts1, run.id) \/ ~created.ok
        THEN FailurePath(r, run1, auts1, lg, outs1, FALSE, t2)
        ELSE [run |-> Complete(run1, TRUE), automations |-> auts1,
              logs |-> created.logs, outputs |-> outs1]

\* ------------------------------------------------------------------ client
\* The terminal event the client decodes from the stream.
Terminal(stream) ==
    stream[CHOOSE i \in 1..Len(stream) : stream[i].type = "complete"]

\* addLogEntry with the POST /api/logs it schedules: the entry's id is the
\* browser's Date.now().
addLogEntry(lg, auts, r, id, status, output, t) ==
    LogModel_create(lg, auts,
        [id |-> t, automationId |-> id, status |-> status, output |-> output,
         run |-> r, by |-> "client"]).logs

\* ----------------------------------------------------------- output store
Min(a, b) == IF a < b THEN a ELSE b

\* ORDER BY timestamp DESC; rows of equal timestamp come in the order of the
\* table scan, which is the order of insertion and so of the ids.
Before(o, p) ==
    \/ o.timestamp > p.timestamp
    \/ o.timestamp = p.timestamp /\ o.id <= p.id

RECURSIVE OrderByTimestampDesc(_)
OrderByTimestampDesc(outs) ==
    IF outs = {} THEN <<>>
    ELSE LET first == CHOOSE o \in outs : \A p \in outs : Before(o, p)
         IN  <<first>> \o OrderByTimestampDesc(outs \ {first})

\* getAll with the offset taken from the page alone.
getAllWithoutSkip(outs, page, limit, skip) ==
    LET offset == (page - 1) * limit
        rows == OrderByTimestampDesc(outs)
    IN  [files |-> SubSeq(rows, offset + 1, Min(offset + limit, Len(rows))),
         total |-> Cardinality(outs), page |-> page, limit |-> limit]

\* OutputModel.getAll: LIMIT limit OFFSET (page - 1) * limit + skip
getAll(outs, page, limit, skip) ==
    LET offset == ((page - 1) * limit) + skip
        rows == OrderByTimestampDesc(outs)
    IN  [files |-> SubSeq(rows, offset + 1, Min(offset + limit, Len(rows))),
         total |-> Cardinality(outs), page |-> page, limit |-> limit]

\* delete that finds the row by its id and removes by its timestamp.
OutputModel_deleteByTimestamp(outs, id) ==
    IF id \notin OutputIds(outs)
    THEN [found |-> FALSE, outputs |-> outs]
    ELSE [found |-> TRUE,
          outputs |-> {o \in outs : \A p \in outs :
                          p.id = id => o.timestamp # p.timestamp}]

\* OutputModel.delete: null when there is no such row.
OutputModel_delete(outs, id) ==
    IF id \notin OutputIds(outs)
    THEN [found |-> FALSE, outputs |-> outs]
    ELSE [found |-> TRUE, outputs |-> {o \in outs : o.id # id}]

RECURSIVE DeleteEach(_, _)
DeleteEach(outs, ids) ==
    IF ids = {} THEN outs
    ELSE LET id == CHOOSE i \in ids : TRUE
         IN  DeleteEach(OutputModel_delete(outs, id).outputs, ids \ {id})

\* cleanupOldOutputs without the purge of the rows that are not screenshots.
cleanupOnlyOld(outs, days, t) ==
    LET cutoffTimestamp == t - days * Day
        oldOutputsToDelete == {o \in outs : o.timestamp < cutoffTimestamp}
    IN  [outputs |-> DeleteEach(outs, OutputIds(oldOutputsToDelete)),
         deleted |-> Cardinality(oldOutputsToDelete),
         oldOutputsRemoved |-> Cardinality(oldOutputsToDelete),
         nonScreenshotsRemoved |-> 0]

\* cleanupOldOutputs with the rows that are exactly days old counted as old.
cleanupInclusive(outs, days, t) ==
    LET cutoffTimestamp == t - days * Day
        oldOutputsToDelete == {o \in outs : o.timestamp <= cutoffTimestamp}
        nonScreenshotOutputs == {o \in outs : o.type # "screenshot"}
        outputIdsToDelete == OutputIds(oldOutputsToDelete \cup nonScreenshotOutputs)
    IN  [outputs |-> DeleteEach(outs, outputIdsToDelete),
         deleted |-> Cardinality(outputIdsToDelete),
         oldOutputsRemoved |-> Cardinality(oldOutputsToDelete),
         nonScreenshotsRemoved |-> Cardinality(nonScreenshotOutputs)]

\* OutputModel.cleanupOldOutputs(days) at time t.
cleanupOldOutputs(outs, days, t) ==
    LET cutoffTimestamp == t - days * Day
        oldOutputsToDelete == {o \in outs : o.timestamp < cutoffTimestamp}
        nonScreenshotOutputs == {o \in outs : o.type # "screenshot"}
        outputIdsToDelete == OutputIds(oldOutputsToDelete \cup nonScreenshotOutputs)
    IN  [outputs |-> DeleteEach(outs, outputIdsToDelete),
         deleted |-> Cardinality(outputIdsToDelete),
         oldOutputsRemoved |-> Cardinality(oldOutputsToDelete),
         nonScreenshotsRemoved |-> Cardinality(nonScreenshotOutputs)]

\* DELETE FROM automations without the ON DELETE CASCADE of logs and outputs.
AutomationModel_deleteNoCascade(auts, lg, outs, id) ==
    IF auts[id] = Absent
    THEN [found |-> FALSE, automations |-> auts, logs |-> lg, outputs |-> outs]
    ELSE [found |-> TRUE, automations |-> [auts EXCEPT ![id] = Absent],
          logs |-> lg, outputs |-> outs]

\* AutomationModel.delete: the rows of logs and outputs that reference the
\* automation go with it (ON DELETE CASCADE).
AutomationModel_delete(auts, lg, outs, id) ==
    IF auts[id] = Absent
    THEN [found |-> FALSE, automations |-> auts, logs |-> lg, outputs |-> outs]
    ELSE [found |-> TRUE, automations |-> [auts EXCEPT ![id] = Absent],
          logs |-> {l \in lg : l.automationId # id},
          outputs |-> {o \in outs : o.automationId # id}]

\* The answer of a store endpoint; the fields an endpoint does not send keep
\* these values.
NoReply ==
    [op |-> "none", status |-> 0, page |-> 0, limit |-> 0, skip |-> 0,
     files |-> <<>>, total |-> 0, hasMore |-> FALSE, id |-> 0, repeat |-> FALSE,
     days |-> 0, deleted |-> 0, oldOutputsRemoved |-> 0,
     nonScreenshotsRemoved |-> 0]

\* The reader before the first chunk: let buffer = ''.
IdleReader ==
    [pos |-> 0, buffer |-> <<>>, decoded |-> <<>>, output |-> <<>>,
     state |-> "reading"]

\* ------------------------------------------------------------- the wire
\* The text of a stream as the pieces a chunk boundary can fall between:
\* "data: ", the JSON text in two halves, with the line separator U+2028
\* between them when the text holds one (JSON.stringify leaves it as it is),
\* and the two newlines that end a frame.
NoEvent == [type |-> "none", success |-> FALSE, line |-> 0]
Tok(k, ev) == [k |-> k, ev |-> ev]

\* Whether the JSON text of the i-th event holds a line separator: a log
\* event carries the logged text, the complete event of a success carries the
\* joined log lines as its output.
HasSeparator(stream, i) ==
    \/ stream[i].type = "log" /\ lineText[stream[i].line] = "ls"
    \/ /\ stream[i].type = "complete" /\ stream[i].success
       /\ \E j \in 1..(i - 1) :
             stream[j].type = "log" /\ lineText[stream[j].line] = "ls"

\* res.write(`data: ${JSON.stringify(data)}\n\n`)
Frame(stream, i) ==
    <<Tok("data", NoEvent), Tok("a", stream[i])>>
    \o (IF HasSeparator(stream, i) THEN <<Tok("ls", NoEvent)>> ELSE <<>>)
    \o <<Tok("b", stream[i]), Tok("nl", NoEvent), Tok("nl", NoEvent)>>

RECURSIVE EncodeUpTo(_, _)
EncodeUpTo(stream, n) ==
    IF n = 0 THEN <<>> ELSE EncodeUpTo(stream, n - 1) \o Frame(stream, n)

Encode(stream) == EncodeUpTo(stream, Len(stream))

\* buffer.split('\n\n'): the pieces between blank-line delimiters; the last
\* piece is what events.pop() keeps as the new buffer.
RECURSIVE Split(_)
Split(buffer) ==
    IF \E i \in 1..(Len(buffer) - 1) : buffer[i].k = "nl" /\ buffer[i + 1].k = "nl"
    THEN LET i == CHOOSE i \in 1..(Len(buffer) - 1) :
                     /\ buffer[i].k = "nl" /\ buffer[i + 1].k = "nl"
                     /\ \A j \in 1..(i - 1) : ~(buffer[j].k = "nl" /\ buffer[j + 1].k = "nl")
         IN  <<SubSeq(buffer, 1, i - 1)>> \o Split(SubSeq(buffer, i + 2, Len(buffer)))
    ELSE <<buffer>>

\* event.match(/^data: (.+)$/m) and JSON.parse of the capture: the capture
\* runs from "data: " to the first line terminator, and parses when it is the
\* whole JSON text.  NoEvent stands for no match or a parse error.
Parse(event) ==
    IF /\ Len(event) >= 3
       /\ event[1].k = "data" /\ event[2].k = "a" /\ event[3].k = "b"
       /\ event[2].ev = event[3].ev
       /\ Len(event) > 3 => event[4].k \in {"ls", "nl"}
    THEN event[2].ev
    ELSE NoEvent

\* The for loop over the complete frames: a log is appended to the live
\* output, complete resolves the run and leaves the loop.
RECURSIVE Dispatch(_, _)
Dispatch(rd, events) ==
    IF events = <<>> \/ rd.state # "reading" THEN rd
    ELSE LET data == Parse(Head(events))
             next == IF data.type = "none" THEN rd
                     ELSE IF data.type = "log"
                     THEN [rd EXCEPT !.decoded = Append(@, data),
                                     !.output = Append(@, data.line)]
                     ELSE IF data.type = "complete"
                     THEN [rd EXCEPT !.decoded = Append(@, data),
                                     !.state = "resolved"]
                     ELSE [rd EXCEPT !.decoded = Append(@, data)]
         IN  Dispatch(next, Tail(events))

\* One turn of the while loop of processChunks on a chunk.
processChunk(rd, chunk) ==
    LET pieces == Split(rd.buffer \o chunk)
        n == Len(pieces)
    IN  Dispatch([rd EXCEPT !.pos = @ + Len(chunk), !.buffer = pieces[n]],
                 SubSeq(pieces, 1, n - 1))

\* ------------------------------------------------------------ fetchAPI
\* An endpoint is the text fetchAPI is called with, which is also the key of
\* its cache: the path and the query parameters written into it.
Endpoint(path, page, limit, skip, sort) ==
    [path |-> path, page |-> page, limit |-> limit, skip |-> skip, sort |-> sort]

\* `/outputs?page=1&limit=${PRIORITY_FILES_COUNT}&sort=desc`
PriorityEndpoint(path) == Endpoint(path, 1, PRIORITY_FILES_COUNT, 0, TRUE)

\* `/outputs?page=${page}&limit=${PAGE_SIZE}&skip=${skipCount}`
PageEndpoint(path, page, skip) == Endpoint(path, page, PAGE_SIZE, skip, FALSE)

\* `/outputs/${id}`, called with method DELETE
ItemEndpoint(id) == Endpoint("outputs/id", id, 0, 0, FALSE)

\* '/automations'
AutomationsEndpoint == Endpoint("automations", 0, 0, 0, FALSE)

\* '/settings': an endpoint whose text does not hold 'output'
SettingsEndpoint == Endpoint("settings", 0, 0, 0, FALSE)

\* What a response carries: the wrapper of GET /api/outputs, the bare array
\* of GET /api/outputs-direct, or the error object fetchAPI returns when the
\* request failed.
Wrapped(files) == [kind |-> "wrapped", files |-> files, value |-> 0]
Bare(files) == [kind |-> "array", files |-> files, value |-> 0]
SettingsResponse(days) == [kind |-> "settings", files |-> <<>>, value |-> days]
DeletedResponse(id) == [kind |-> "deleted", files |-> <<>>, value |-> id]
AutomationsResponse(rows) == [kind |-> "automations", files |-> rows, value |-> 0]
ErrorResponse == [kind |-> "error", files |-> <<>>, value |-> 0]

\* What fetchAPI returns in place of the error object when a request on
\* '/settings' failed.
MockSettings == SettingsResponse(DefaultDays)

\* The server's answer to a listing request, from the table as it is now.
Listing(outs, endpoint) ==
    LET files == getAll(outs, endpoint.page, endpoint.limit, endpoint.skip).files
    IN  IF endpoint.path = "outputs" THEN Wrapped(files) ELSE Bare(files)

\* apiCache.get(cacheKey) with the test of its age
CachedWithoutAge(cache, endpoint, t) ==
    {c \in cache : c.endpoint = endpoint}

Cached(cache, endpoint, t) ==
    {c \in cache : c.endpoint = endpoint /\ t - c.timestamp < CACHE_EXPIRY}

\* apiCache.set(endpoint, {data, timestamp: Date.now()})
CacheSet(cache, endpoint, data, t) ==
    {c \in cache : c.endpoint # endpoint}
        \cup {[endpoint |-> endpoint, data |-> data, timestamp |-> t]}

\* clearOutputsCache: every key that holds 'output' or 'Output'
HoldsOutput(endpoint) == endpoint.path \in {"outputs", "outputs-direct", "outputs/id"}

clearOutputsCache(cache) == {c \in cache : ~HoldsOutput(c.endpoint)}

NotServed ==
    [endpoint |-> SettingsEndpoint, method |-> "none", from |-> "none",
     data |-> ErrorResponse]

\* ---------------------------------------------------------- outputs store
Ids(files) == {files[i].id : i \in 1..Len(files)}

RECURSIVE Without(_, _)
Without(files, ids) ==
    IF files = <<>> THEN <<>>
    ELSE IF Head(files).id \in ids THEN Without(Tail(files), ids)
         ELSE <<Head(files)>> \o Without(Tail(files), ids)

\* group.sort by timestamp, newest first; Array.prototype.sort is stable.
RECURSIVE SortGroup(_)
SortGroup(group) ==
    IF group = <<>> THEN <<>>
    ELSE LET first == CHOOSE i \in 1..Len(group) :
                         /\ \A j \in 1..Len(group) : group[j].timestamp <= group[i].timestamp
                         /\ \A j \in 1..(i - 1) : group[j].timestamp < group[i].timestamp
         IN  <<group[first]>>
             \o SortGroup(SubSeq(group, 1, first - 1) \o SubSeq(group, first + 1, Len(group)))

\* The grouping the derived store computes when it does not use its cache:
\* the priority files, then the files that are not among them, by type.
Grouping(files, priority) ==
    LET all == priority \o Without(files, Ids(priority))
    IN  [type \in ArtifactTypes |-> SortGroup(SelectSeq(all, LAMBDA f : f.type = type))]

NoGrouping == [data |-> Grouping(<<>>, <<>>), valid |-> FALSE, timestamp |-> 0]

\* The callback of the derived store, run when one of its two stores is set:
\* the new value of the store and of its cache.
derive(files, priority, cache, t) ==
    IF cache.valid /\ t - cache.timestamp < CACHE_TTL
    THEN [value |-> cache.data, cache |-> cache]
    ELSE [value |-> Grouping(files, priority),
          cache |-> [data |-> Grouping(files, priority), valid |-> TRUE, timestamp |-> t]]

\* -------------------------------------------------------- parse queue
PRIORITY_HIGH == 1
PRIORITY_MEDIUM == 2
PRIORITY_LOW == 3

\* What the data of a file can be: the text of a JSON object or array, a text
\* that starts like one and does not parse, the text of a JSON value of
\* another kind (true, 42, "x"), any other text, or nothing.
DataKinds == {"object", "broken", "scalar", "text", "empty"}

\* trimmedData.startsWith('{') || trimmedData.startsWith('[')
LooksLikeJSON(data) == data \in {"object", "broken"}

\* JSON.parse(data) returns instead of throwing
Decodes(data) == data \in {"object", "scalar"}

\* parsedDataCache.set(id, value): the values kept beside the keys
CacheValue(values, id, value) ==
    {e \in values : e.id # id} \cup {[id |-> id, value |-> value]}

\* parsedDataCache.get(id)
CacheGet(values, id) == (CHOOSE e \in values : e.id = id).value

\* A queue taken as it stands.
unsorted(queue) == queue

\* parseQueue.sort((a, b) => a.priority - b.priority): the sort keeps the
\* order of entries that compare equal.
sortByPriority(queue) ==
    SelectSeq(queue, LAMBDA e : e.priority = PRIORITY_HIGH)
        \o SelectSeq(queue, LAMBDA e : e.priority = PRIORITY_MEDIUM)
        \o SelectSeq(queue, LAMBDA e : e.priority = PRIORITY_LOW)

\* A page that is the last one only when it is empty.
NoMoreWhenEmpty(files) == files = <<>>

\* if (newOutputs.length < PAGE_SIZE)
NoMore(files) == Len(files) < PAGE_SIZE

\* A removal that leaves the priority slice alone.
removeFromListOnly(files, priority, parsed, id) ==
    [files |-> Without(files, {id}), priority |-> priority, parsed |-> parsed \ {id}]

\* The local removal of deleteOutputFile: both stores are filtered and the
\* id leaves the parsed-data cache.
removeLocally(files, priority, parsed, id) ==
    [files |-> Without(files, {id}), priority |-> Without(priority, {id}),
     parsed |-> parsed \ {id}]

NewTask(n, fn) == [n |-> n, fn |-> fn, pc |-> "timer", page |-> 0, skip |-> 0, id |-> 0]

\* --------------------------------------------------- automations (client)
\* The ids in the order of the server's listing.
IdList == <<"1", "2">>

\* The array GET /api/automations answers with, as the store keeps it.
Rows(table) ==
    LET present == SelectSeq(IdList, LAMBDA id : table[id] # Absent)
    IN  [i \in 1..Len(present) |-> [id |-> present[i], name |-> "stored"]]

\* The automation the store starts with when the server has none.
sampleAutomation == [id |-> "1", name |-> "Sample Automation"]

\* What a call of the automations API returns: {success, data}.
NoReturn == [fn |-> "none", success |-> FALSE, data |-> <<>>]

\* ------------------------------------------------------------------ actions
\* The stores of the browser as their modules create them.
BrowserInit ==
    /\ outputFiles = <<>>
    /\ priorityOutputFiles = <<>>
    /\ parsedDataCache = {}
    /\ outputsByTypeCache = NoGrouping
    /\ outputsByType = Grouping(<<>>, <<>>)
    /\ isLoadingOutputs = FALSE
    /\ isPriorityLoaded = FALSE
    /\ hasMoreOutputs = TRUE
    /\ currentPage = 1
    /\ lastOutputsRefresh = 0
    /\ apiCache = {}
    /\ clock = CACHE_EXPIRY
    /\ tasks = {}
    /\ ncalls = 0
    /\ requests = <<>>
    /\ served = NotServed
    /\ returned = NoReturn
    /\ parseQueue = <<>>
    /\ isProcessingQueue = FALSE
    /\ parsedValue = {}
    /\ gave = "none"
    /\ logEntries = <<>>
    /\ isLoadingLogs = FALSE
    /\ hasMoreLogs = TRUE
    /\ logsPage = 1

Init ==
    /\ automations = [id \in AutomationIds |-> IF id = "1" THEN "idle" ELSE Absent]
    /\ logs = {}
    /\ outputs = {}
    /\ now = 0
    /\ runs = [r \in Runs |-> FreeRun]
    /\ last = NoSettle
    /\ cstatus = [id \in AutomationIds |-> IF id = "1" THEN "idle" ELSE Absent]
    /\ citems = Rows(cstatus)
    /\ cdirty = FALSE
    /\ keepOutputDays = InitialKeepOutputDays
    /\ reply = NoReply
    /\ lineText = [n \in 1..MaxLines |-> "plain"]
    /\ reader = IdleReader
    /\ BrowserInit

\* POST /api/run-automation up to the await of the script.  With attached,
\* the submission comes from runAutomationById, which first sets the client
\* status to running; otherwise it is a bare request.
Submit(r, id, script, attached) ==
    /\ runs[r].pc = "free"
    /\ \A q \in Runs : q < r => runs[q].pc # "free"
    /\ attached => cstatus[id] # Absent
    /\ LET run == [FreeRun EXCEPT !.id = id, !.script = script,
                                  !.cpc = IF attached THEN "wait" ELSE "none"]
       IN  IF Rejects(script)
           THEN /\ runs' = [runs EXCEPT ![r] = [run EXCEPT !.pc = "rejected", !.http = 400]]
                /\ UNCHANGED automations
           ELSE IF script = "syntax"
           THEN /\ runs' = [runs EXCEPT ![r] = OuterCatch(OpenStream(run))]
                /\ UNCHANGED automations
           ELSE /\ runs' = [runs EXCEPT ![r] = [OpenStream(run) EXCEPT !.pc = "script"]]
                /\ automations' = updateStatus(automations, id, "running")
    /\ cstatus' = IF attached THEN [cstatus EXCEPT ![id] = "running"] ELSE cstatus
    /\ cdirty' = (cdirty \/ attached)
    /\ last' = NoSettle
    /\ UNCHANGED browserVars
    /\ UNCHANGED <<logs, outputs, now>>
    /\ UNCHANGED <<keepOutputDays, reply, lineText, reader>>

\* The script calls the logger before run() settles.
ScriptLog(r, bound) ==
    /\ runs[r].pc = "script"
    /\ runs[r].nlogged < bound
    /\ runs' = [runs EXCEPT ![r] = logCapture(@)]
    /\ last' = NoSettle
    /\ UNCHANGED browserVars
    /\ UNCHANGED <<automations, logs, outputs, now, cstatus, cdirty>>
    /\ UNCHANGED <<keepOutputDays, reply, lineText, reader>>

\* run() settles and the handler runs to its end.  The clock may pass to the
\* next millisecond between the insert of the try block and the one of the
\* catch block, which is read only after the first insert failed.
ScriptSettle(r, outcome, result, t2) ==
    /\ runs[r].pc = "script"
    /\ outcome # "resolve" => result = "none"
    /\ t2 # now => (outcome = "resolve" /\ now \in LogIds(logs))
    /\ LET after == IF outcome = "resolve"
                    THEN SuccessPath(r, runs[r], result, automations, logs, outputs, now, t2)
                    ELSE FailurePath(r, runs[r], automations, logs, outputs,
                                     outcome = "throwNull", now)
       IN  /\ runs' = [runs EXCEPT ![r] = after.run]
           /\ automations' = after.automations
           /\ logs' = after.logs
           /\ outputs' = after.outputs
    /\ last' = [run |-> r, outcome |-> outcome, result |-> result]
    /\ UNCHANGED browserVars
    /\ now' = t2
    /\ UNCHANGED <<cstatus, cdirty>>
    /\ UNCHANGED <<keepOutputDays, reply, lineText, reader>>

\* Work the script left behind calls the logger after run() has settled.
LateLog(r, bound) ==
    /\ runs[r].pc \in {"done", "aborted"}
    /\ runs[r].script = "ok"
    /\ runs[r].nlogged < bound
    /\ runs' = [runs EXCEPT ![r] = logCapture(@)]
    /\ last' = NoSettle
    /\ UNCHANGED browserVars
    /\ UNCHANGED <<automations, logs, outputs, now, cstatus, cdirty>>
    /\ UNCHANGED <<keepOutputDays, reply, lineText, reader>>

\* The clock passes to the next millisecond.  Row ids are only ever compared
\* for equality, so milliseconds in which no row is written are not counted.
Tick ==
    /\ now \in LogIds(logs) \cup OutputIds(outputs)
    /\ now' = now + 1
    /\ last' = NoSettle
    /\ UNCHANGED browserVars
    /\ UNCHANGED <<automations, logs, outputs, runs, cstatus, cdirty>>
    /\ UNCHANGED <<keepOutputDays, reply, lineText, reader>>

\* The client's stream reader reaches the complete event: the result is
\* stored, the status set, the log entry added and the idle reset scheduled.
ClientComplete(r) ==
    /\ runs[r].cpc = "wait"
    /\ HasComplete(runs[r].stream)
    /\ LET ev == Terminal(runs[r].stream)
           id == runs[r].id
           status == IF ev.success THEN "completed" ELSE "failed"
           output == IF ev.success
                     THEN [error |-> FALSE, lines |-> LogLines(runs[r].stream)]
                     ELSE [error |-> TRUE, lines |-> <<>>]
       IN  /\ cstatus' = [cstatus EXCEPT ![id] = status]
           /\ logs' = addLogEntry(logs, automations, r, id, status, output, now)
    /\ runs' = [runs EXCEPT ![r].cpc = "timer"]
    /\ cdirty' = TRUE
    /\ last' = NoSettle
    /\ UNCHANGED browserVars
    /\ UNCHANGED <<automations, outputs, now>>
    /\ UNCHANGED <<keepOutputDays, reply, lineText, reader>>

\* The client gets no complete event (an HTTP error answer, the 120 s
\* timeout, a stream that ends early) and falls back to the simulated
\* runner, which reports success.
ClientFallback(r) ==
    /\ runs[r].cpc = "wait"
    /\ LET id == runs[r].id
       IN  /\ cstatus' = [cstatus EXCEPT ![id] = "completed"]
           /\ logs' = addLogEntry(logs, automations, r, id, "completed",
                                  [error |-> FALSE, lines |-> <<>>], now)
    /\ runs' = [runs EXCEPT ![r].cpc = "timer"]
    /\ cdirty' = TRUE
    /\ last' = NoSettle
    /\ UNCHANGED browserVars
    /\ UNCHANGED <<automations, outputs, now>>
    /\ UNCHANGED <<keepOutputDays, reply, lineText, reader>>

\* setTimeout(..., 3000): the client resets the status to idle.
ClientIdleReset(r) ==
    /\ runs[r].cpc = "timer"
    /\ cstatus' = [cstatus EXCEPT ![runs[r].id] = "idle"]
    /\ runs' = [runs EXCEPT ![r].cpc = "fin"]
    /\ cdirty' = TRUE
    /\ last' = NoSettle
    /\ UNCHANGED browserVars
    /\ UNCHANGED <<automations, logs, outputs, now>>
    /\ UNCHANGED <<keepOutputDays, reply, lineText, reader>>

\* The automations store's subscriber PUTs every automation of the client
\* store to the server, status included.
saveAutomations ==
    /\ cdirty
    /\ automations' = [id \in AutomationIds |->
                          IF automations[id] # Absent /\ cstatus[id] # Absent
                          THEN cstatus[id] ELSE automations[id]]
    /\ cdirty' = FALSE
    /\ last' = NoSettle
    /\ UNCHANGED browserVars
    /\ UNCHANGED <<logs, outputs, now, runs, cstatus>>
    /\ UNCHANGED <<keepOutputDays, reply, lineText, reader>>

\* The run coordinator under bare requests.
Next ==
    \/ \E r \in Runs, id \in AutomationIds, script \in Scripts :
          Submit(r, id, script, FALSE)
    \/ \E r \in Runs : ScriptLog(r, MaxLogs)
    \/ \E r \in Runs, outcome \in Outcomes, result \in Results, t2 \in {now, now + 1} :
          ScriptSettle(r, outcome, result, t2)
    \/ \E r \in Runs : LateLog(r, MaxLogs)
    \/ Tick

Spec == Init /\ [][Next]_vars

\* A submission for automation "1": the first one, or one made while another
\* run of that automation is in flight.
SubmitOverlapping(r, script) ==
    /\ r = 1 \/ \E q \in Runs : runs[q].pc = "script" /\ runs[q].id = "1"
    /\ Submit(r, "1", script, FALSE)

\* The run coordinator under bare requests for one automation, every later
\* request arriving while a run of the automation is in flight.
OverlapNext ==
    \/ \E r \in Runs, script \in Scripts : SubmitOverlapping(r, script)
    \/ \E r \in Runs : ScriptLog(r, MaxLogs)
    \/ \E r \in Runs, outcome \in Outcomes, result \in Results, t2 \in {now, now + 1} :
          ScriptSettle(r, outcome, result, t2)
    \/ \E r \in Runs : LateLog(r, MaxLogs)
    \/ Tick

OverlapSpec == Init /\ [][OverlapNext]_vars

\* The run coordinator with the browser client on some of the runs.
ClientNext ==
    \/ \E r \in Runs, id \in AutomationIds, script \in Scripts, attached \in BOOLEAN :
          Submit(r, id, script, attached)
    \/ \E r \in Runs : ScriptLog(r, MaxLogs)
    \/ \E r \in Runs, outcome \in Outcomes, result \in Results, t2 \in {now, now + 1} :
          ScriptSettle(r, outcome, result, t2)
    \/ \E r \in Runs : LateLog(r, MaxLogs)
    \/ Tick
    \/ \E r \in Runs : ClientComplete(r)
    \/ \E r \in Runs : ClientFallback(r)
    \/ \E r \in Runs : ClientIdleReset(r)
    \/ saveAutomations

ClientSpec == Init /\ [][ClientNext]_vars

\* ---------------------------------------------------- store endpoints
\* GET /api/outputs
GetOutputs(page, limit, skip) ==
    LET result == getAll(outputs,
                         IF page = 0 THEN DefaultPage ELSE page,
                         IF limit = 0 THEN DefaultLimit ELSE limit,
                         skip)
    IN  /\ reply' = [NoReply EXCEPT
                        !.op = "list", !.status = 200,
                        !.page = result.page, !.limit = result.limit, !.skip = skip,
                        !.files = result.files, !.total = result.total,
                        !.hasMore = (result.page * result.limit) < result.total]
        /\ last' = NoSettle
        /\ UNCHANGED browserVars
        /\ UNCHANGED <<automations, logs, outputs, now, runs, cstatus, cdirty,
                       keepOutputDays, lineText, reader>>

\* DELETE /api/outputs/:id
DeleteOutput(id) ==
    LET result == OutputModel_delete(outputs, id)
    IN  /\ outputs' = result.outputs
        /\ reply' = [NoReply EXCEPT
                        !.op = "delete", !.id = id,
                        !.status = IF result.found THEN 200 ELSE 404,
                        !.repeat = (reply.op = "delete" /\ reply.id = id
                                    /\ reply.status = 200)]
        /\ last' = NoSettle
        /\ UNCHANGED browserVars
        /\ UNCHANGED <<automations, logs, now, runs, cstatus, cdirty,
                       keepOutputDays, lineText, reader>>

\* POST /api/maintenance/cleanup
Cleanup ==
    LET days == IF keepOutputDays = 0 THEN DefaultDays ELSE keepOutputDays
        result == cleanupOldOutputs(outputs, days, now)
    IN  /\ outputs' = result.outputs
        /\ reply' = [NoReply EXCEPT
                        !.op = "cleanup", !.status = 200, !.days = days,
                        !.deleted = result.deleted,
                        !.oldOutputsRemoved = result.oldOutputsRemoved,
                        !.nonScreenshotsRemoved = result.nonScreenshotsRemoved]
        /\ last' = NoSettle
        /\ UNCHANGED browserVars
        /\ UNCHANGED <<automations, logs, now, runs, cstatus, cdirty,
                       keepOutputDays, lineText, reader>>

\* POST /api/settings with a keepOutputDays value
SaveSettings(days) ==
    /\ keepOutputDays' = days
    /\ reply' = [NoReply EXCEPT !.op = "settings", !.status = 200, !.days = days]
    /\ last' = NoSettle
    /\ UNCHANGED browserVars
    /\ UNCHANGED <<automations, logs, outputs, now, runs, cstatus, cdirty,
                   lineText, reader>>

\* DELETE /api/automations/:id
DeleteAutomation(id) ==
    LET result == AutomationModel_delete(automations, logs, outputs, id)
    IN  /\ automations' = result.automations
        /\ logs' = result.logs
        /\ outputs' = result.outputs
        /\ reply' = [NoReply EXCEPT
                        !.op = "deleteAutomation",
                        !.status = IF result.found THEN 200 ELSE 404]
        /\ last' = NoSettle
        /\ UNCHANGED browserVars
        /\ UNCHANGED <<now, runs, cstatus, cdirty, keepOutputDays, lineText, reader>>

\* POST /api/automations with the id in the body
CreateAutomation(id) ==
    /\ automations' = IF automations[id] = Absent
                      THEN [automations EXCEPT ![id] = "idle"]
                      ELSE automations
    /\ reply' = [NoReply EXCEPT
                    !.op = "createAutomation",
                    !.status = IF automations[id] = Absent THEN 200 ELSE 500]
    /\ last' = NoSettle
    /\ UNCHANGED browserVars
    /\ UNCHANGED <<logs, outputs, now, runs, cstatus, cdirty,
                   keepOutputDays, lineText, reader>>

\* The store as some earlier life of the process left it: rows written by
\* saveOutput, whose timestamp is read right after the id, at four ages around
\* the retention windows.
Horizon == (DefaultDays + MaxDays) * Day
Stamps == {Horizon - DefaultDays * Day - 1, Horizon - Day - 1, Horizon - Day,
           Horizon - 1}
Variants == [type : ArtifactTypes, late : BOOLEAN]
ScreenshotVariants == [type : {"screenshot"}, late : BOOLEAN]

StoredRows(variants) ==
    /\ automations = [id \in AutomationIds |-> "idle"]
    /\ logs = {}
    /\ \E ids \in SUBSET Stamps :
          /\ Cardinality(ids) <= MaxRows
          /\ \E v \in [ids -> variants] :
                outputs = {[id |-> i, automationId |-> "1", type |-> v[i].type,
                            timestamp |-> IF v[i].late THEN i + 1 ELSE i] : i \in ids}
    /\ now = Horizon
    /\ runs = [r \in Runs |-> FreeRun]
    /\ last = NoSettle
    /\ cstatus = [id \in AutomationIds |-> "idle"]
    /\ citems = Rows(cstatus)
    /\ cdirty = FALSE
    /\ keepOutputDays = InitialKeepOutputDays
    /\ reply = NoReply
    /\ lineText = [n \in 1..MaxLines |-> "plain"]
    /\ reader = IdleReader
    /\ BrowserInit

\* Rows of any type, as a database written by an earlier version holds them.
StoreInit == StoredRows(Variants)

\* The retention and delete endpoints on a stored set of artifacts.
StoreNext ==
    \/ \E id \in Stamps : DeleteOutput(id)
    \/ Cleanup
    \/ \E days \in Days : SaveSettings(days)

StoreSpec == StoreInit /\ [][StoreNext]_vars

\* The rows a sweep leaves: screenshots only.
ListInit == StoredRows(ScreenshotVariants)

\* The listing endpoint on a fixed set of artifacts.
ListNext ==
    \E page \in Args, limit \in Args, skip \in Args : GetOutputs(page, limit, skip)

ListSpec == ListInit /\ [][ListNext]_vars

\* Runs of scripts that compile and do not log, next to the endpoints that
\* create and delete automations and sweep the artifacts, with the retention
\* window the database starts with.
AdminNext ==
    \/ \E r \in Runs, id \in AutomationIds : Submit(r, id, "ok", FALSE)
    \/ \E r \in Runs, outcome \in Outcomes, result \in Results, t2 \in {now, now + 1} :
          ScriptSettle(r, outcome, result, t2)
    \/ Tick
    \/ \E id \in AutomationIds : DeleteAutomation(id)
    \/ \E id \in AutomationIds : CreateAutomation(id)
    \/ Cleanup

AdminSpec == Init /\ [][AdminNext]_vars

\* ------------------------------------------------------- stream reader
\* The run whose stream the browser reads.
FirstRun == CHOOSE r \in Runs : \A q \in Runs : r <= q

\* reader.read() hands over the next k pieces of what the server has written;
\* processChunks appends them to the buffer and handles the complete frames.
Read(k) ==
    /\ runs[FirstRun].cpc = "wait"
    /\ runs[FirstRun].http = 200
    /\ reader.state = "reading"
    /\ reader.pos + k <= Len(Encode(runs[FirstRun].stream))
    /\ reader' = processChunk(reader,
                     SubSeq(Encode(runs[FirstRun].stream), reader.pos + 1, reader.pos + k))
    /\ last' = NoSettle
    /\ UNCHANGED browserVars
    /\ UNCHANGED <<automations, logs, outputs, now, runs, cstatus, cdirty>>
    /\ UNCHANGED <<keepOutputDays, reply, lineText>>

\* reader.read() reports done: the stream ended without a complete event
\* having been handled.
ReadEnd ==
    /\ runs[FirstRun].cpc = "wait"
    /\ runs[FirstRun].ended
    /\ reader.state = "reading"
    /\ reader.pos = Len(Encode(runs[FirstRun].stream))
    /\ reader' = [reader EXCEPT !.state = "rejected"]
    /\ last' = NoSettle
    /\ UNCHANGED browserVars
    /\ UNCHANGED <<automations, logs, outputs, now, runs, cstatus, cdirty>>
    /\ UNCHANGED <<keepOutputDays, reply, lineText>>

\* One run read by the browser, the script logging any text.
WireInit ==
    /\ automations = [id \in AutomationIds |-> IF id = "1" THEN "idle" ELSE Absent]
    /\ logs = {}
    /\ outputs = {}
    /\ now = 0
    /\ runs = [r \in Runs |-> FreeRun]
    /\ last = NoSettle
    /\ cstatus = [id \in AutomationIds |-> IF id = "1" THEN "idle" ELSE Absent]
    /\ citems = Rows(cstatus)
    /\ cdirty = FALSE
    /\ keepOutputDays = InitialKeepOutputDays
    /\ reply = NoReply
    /\ lineText \in [1..MaxLines -> {"plain", "ls", "shot"}]
    /\ reader = IdleReader
    /\ BrowserInit

WireNext ==
    \/ \E id \in AutomationIds, script \in Scripts : Submit(FirstRun, id, script, TRUE)
    \/ ScriptLog(FirstRun, MaxLines)
    \/ \E outcome \in Outcomes, result \in Results :
          ScriptSettle(FirstRun, outcome, result, now)
    \/ LateLog(FirstRun, MaxLines)
    \/ \E k \in 1..MaxChunk : Read(k)
    \/ ReadEnd

WireSpec == WireInit /\ [][WireNext]_vars

\* ----------------------------------------------------- the outputs view
listVars ==
    <<outputFiles, priorityOutputFiles, outputsByTypeCache, outputsByType,
      isLoadingOutputs, isPriorityLoaded, hasMoreOutputs, currentPage>>

\* getParsedData scheduled for a file: its parse happens in the background.
ParseTask(id) == [NewTask(0, "parse") EXCEPT !.id = id]

Get(endpoint) == [endpoint |-> endpoint, method |-> "GET"]

Answered(endpoint, method, from, data) ==
    [endpoint |-> endpoint, method |-> method, from |-> from, data |-> data]

ListEndpoint(task, path) ==
    IF task.fn = "priority" THEN PriorityEndpoint(path)
    ELSE PageEndpoint(path, task.page, task.skip)

\* resetOutputPagination: both stores are emptied, each set running the
\* derived store's callback, the grouping cache is cleared afterwards and the
\* parse queue emptied.
resetOutputPagination ==
    LET d1 == derive(<<>>, priorityOutputFiles, outputsByTypeCache, clock)
        d2 == derive(<<>>, <<>>, d1.cache, clock)
    IN  /\ outputFiles' = <<>>
        /\ priorityOutputFiles' = <<>>
        /\ isPriorityLoaded' = FALSE
        /\ currentPage' = 1
        /\ hasMoreOutputs' = TRUE
        /\ outputsByType' = d2.value
        /\ outputsByTypeCache' = NoGrouping
        /\ parseQueue' = <<>>

\* loadInitialOutputs: unless a refresh was made lately, reset and call
\* loadPriorityOutputs, which sets the loading flag at once, so that the
\* loadMoreOutputs called after it returns without a request.
loadInitialOutputs ==
    /\ ncalls < MaxCalls
    /\ ncalls' = ncalls + 1
    /\ IF /\ outputFiles # <<>> \/ priorityOutputFiles # <<>>
          /\ clock - lastOutputsRefresh < REFRESH_WINDOW
       THEN UNCHANGED <<listVars, lastOutputsRefresh, tasks, parseQueue>>
       ELSE /\ lastOutputsRefresh' = clock
            /\ resetOutputPagination
            /\ isLoadingOutputs' = TRUE
            /\ tasks' = tasks \cup {NewTask(ncalls + 1, "priority")}
    /\ served' = NotServed
    /\ UNCHANGED <<isProcessingQueue, parsedValue, gave>>
    /\ UNCHANGED <<coordinatorVars, logViewVars, catalogVars, outputs, keepOutputDays, parsedDataCache,
                   apiCache, clock, requests>>

\* loadPriorityOutputs up to its setTimeout.
loadPriorityOutputs ==
    /\ ncalls < MaxCalls
    /\ ncalls' = ncalls + 1
    /\ isLoadingOutputs' = TRUE
    /\ tasks' = tasks \cup {NewTask(ncalls + 1, "priority")}
    /\ served' = NotServed
    /\ UNCHANGED <<outputFiles, priorityOutputFiles, outputsByTypeCache,
                   outputsByType, isPriorityLoaded, hasMoreOutputs, currentPage>>
    /\ UNCHANGED <<coordinatorVars, logViewVars, catalogVars, parseVars, outputs, keepOutputDays, parsedDataCache,
                   lastOutputsRefresh, apiCache, clock, requests>>

\* loadMoreOutputs up to its setTimeout: nothing when a load is under way or
\* there is no more to load; skipCount is fixed here, the page is read later.
loadMoreOutputs ==
    /\ ncalls < MaxCalls
    /\ ncalls' = ncalls + 1
    /\ IF isLoadingOutputs \/ ~hasMoreOutputs
       THEN UNCHANGED <<isLoadingOutputs, tasks>>
       ELSE /\ isLoadingOutputs' = TRUE
            /\ tasks' = tasks \cup
                  {[NewTask(ncalls + 1, "more") EXCEPT
                       !.skip = IF isPriorityLoaded THEN PRIORITY_FILES_COUNT ELSE 0]}
    /\ served' = NotServed
    /\ UNCHANGED <<outputFiles, priorityOutputFiles, outputsByTypeCache,
                   outputsByType, isPriorityLoaded, hasMoreOutputs, currentPage>>
    /\ UNCHANGED <<coordinatorVars, logViewVars, catalogVars, parseVars, outputs, keepOutputDays, parsedDataCache,
                   lastOutputsRefresh, apiCache, clock, requests>>

\* loadPriorityOutputs after its answer.
ContinuePriority(task, files) ==
    LET d == IF files # <<>>
             THEN derive(outputFiles, files, outputsByTypeCache, clock)
             ELSE [value |-> outputsByType, cache |-> outputsByTypeCache]
    IN  /\ priorityOutputFiles' = IF files # <<>> THEN files ELSE priorityOutputFiles
        /\ outputsByType' = d.value
        /\ outputsByTypeCache' = d.cache
        /\ isPriorityLoaded' = TRUE
        /\ isLoadingOutputs' = FALSE
        /\ tasks' = (tasks \ {task})
                       \cup {ParseTask(id) : id \in Ids(files) \ parsedDataCache}
        /\ UNCHANGED <<outputFiles, hasMoreOutputs, currentPage>>

\* loadMoreOutputs after its answer.
ContinueMore(task, files) ==
    LET new == Without(files, Ids(priorityOutputFiles))
        d == IF files # <<>>
             THEN derive(outputFiles \o new, priorityOutputFiles, outputsByTypeCache, clock)
             ELSE [value |-> outputsByType, cache |-> outputsByTypeCache]
    IN  /\ hasMoreOutputs' = IF NoMore(files) THEN FALSE ELSE hasMoreOutputs
        /\ currentPage' = IF NoMore(files) THEN currentPage ELSE currentPage + 1
        /\ outputFiles' = IF files # <<>> THEN outputFiles \o new ELSE outputFiles
        /\ outputsByType' = d.value
        /\ outputsByTypeCache' = d.cache
        /\ isLoadingOutputs' = FALSE
        /\ tasks' = (tasks \ {task})
                       \cup {ParseTask(id) : id \in Ids(new) \ parsedDataCache}
        /\ UNCHANGED <<priorityOutputFiles, isPriorityLoaded>>

Continue(task, files) ==
    IF task.fn = "priority" THEN ContinuePriority(task, files)
    ELSE ContinueMore(task, files)

\* The setTimeout(..., 0) of a load fires: the endpoint is built and fetchAPI
\* called, which answers from its cache or sends the request.
TimerFires(task) ==
    /\ task \in tasks /\ task.fn \in {"priority", "more"} /\ task.pc = "timer"
    /\ LET at == [task EXCEPT !.page = IF task.fn = "more" THEN currentPage ELSE 1]
           endpoint == ListEndpoint(at, "outputs")
           hit == Cached(apiCache, endpoint, clock)
       IN  IF hit # {}
           THEN LET data == (CHOOSE c \in hit : TRUE).data
                IN  /\ served' = Answered(endpoint, "GET", "cache", data)
                    /\ Continue(task, data.files)
                    /\ UNCHANGED requests
           ELSE /\ tasks' = (tasks \ {task}) \cup {[at EXCEPT !.pc = "fetch"]}
                /\ requests' = Append(requests, Get(endpoint))
                /\ served' = NotServed
                /\ UNCHANGED listVars
    /\ UNCHANGED <<coordinatorVars, logViewVars, catalogVars, parseVars, outputs, keepOutputDays, parsedDataCache,
                   lastOutputsRefresh, apiCache, clock, ncalls>>

\* The request of a load is answered.  A failed request makes fetchAPI return
\* its error object, on which the load calls fetchAPI on the direct endpoint.
Answer(task, ok) ==
    /\ task \in tasks /\ task.fn \in {"priority", "more"} /\ task.pc = "fetch"
    /\ LET endpoint == ListEndpoint(task, "outputs")
           direct == ListEndpoint(task, "outputs-direct")
           hit == Cached(apiCache, direct, clock)
       IN  IF ok
           THEN LET data == Listing(outputs, endpoint)
                IN  /\ apiCache' = CacheSet(apiCache, endpoint, data, clock)
                    /\ served' = Answered(endpoint, "GET", "network", data)
                    /\ Continue(task, data.files)
                    /\ UNCHANGED requests
           ELSE IF hit # {}
           THEN LET data == (CHOOSE c \in hit : TRUE).data
                IN  /\ served' = Answered(direct, "GET", "cache", data)
                    /\ Continue(task, data.files)
                    /\ UNCHANGED <<apiCache, requests>>
           ELSE /\ tasks' = (tasks \ {task}) \cup {[task EXCEPT !.pc = "direct"]}
                /\ requests' = Append(requests, Get(direct))
                /\ served' = Answered(endpoint, "GET", "error", ErrorResponse)
                /\ UNCHANGED <<apiCache, listVars>>
    /\ UNCHANGED <<coordinatorVars, logViewVars, catalogVars, parseVars, outputs, keepOutputDays, parsedDataCache,
                   lastOutputsRefresh, clock, ncalls>>

\* The request to the direct endpoint is answered.
AnswerDirect(task, ok) ==
    /\ task \in tasks /\ task.fn \in {"priority", "more"} /\ task.pc = "direct"
    /\ LET direct == ListEndpoint(task, "outputs-direct")
           data == Listing(outputs, direct)
       IN  IF ok
           THEN /\ apiCache' = CacheSet(apiCache, direct, data, clock)
                /\ served' = Answered(direct, "GET", "network", data)
                /\ Continue(task, data.files)
           ELSE /\ served' = Answered(direct, "GET", "error", ErrorResponse)
                /\ Continue(task, <<>>)
                /\ UNCHANGED apiCache
    /\ UNCHANGED <<coordinatorVars, logViewVars, catalogVars, parseVars, outputs, keepOutputDays, parsedDataCache,
                   lastOutputsRefresh, clock, ncalls, requests>>

\* The background parse of a file's data ends: the result is cached and, the
\* file being a screenshot, outputFiles is set to itself to refresh the view.
ParseFires(task) ==
    /\ task \in tasks /\ task.fn = "parse"
    /\ tasks' = tasks \ {task}
    /\ parsedDataCache' = parsedDataCache \cup {task.id}
    /\ parsedValue' = IF task.id \in parsedDataCache THEN parsedValue
                      ELSE CacheValue(parsedValue, task.id, "decoded")
    /\ UNCHANGED <<parseQueue, isProcessingQueue, gave>>
    /\ LET d == IF task.id \in parsedDataCache
                THEN [value |-> outputsByType, cache |-> outputsByTypeCache]
                ELSE derive(outputFiles, priorityOutputFiles, outputsByTypeCache, clock)
       IN  /\ outputsByType' = d.value
           /\ outputsByTypeCache' = d.cache
    /\ served' = NotServed
    /\ UNCHANGED <<outputFiles, priorityOutputFiles, isLoadingOutputs,
                   isPriorityLoaded, hasMoreOutputs, currentPage>>
    /\ UNCHANGED <<coordinatorVars, logViewVars, catalogVars, outputs, keepOutputDays, lastOutputsRefresh,
                   apiCache, clock, ncalls, requests>>

\* deleteOutputFile up to its await: the item leaves both stores and the
\* parsed-data cache, the grouping cache is cleared, the DELETE is sent.
deleteOutputFile(id) ==
    /\ ncalls < MaxCalls
    /\ ncalls' = ncalls + 1
    /\ LET local == removeLocally(outputFiles, priorityOutputFiles, parsedDataCache, id)
           d1 == derive(local.files, priorityOutputFiles, outputsByTypeCache, clock)
           d2 == derive(local.files, local.priority, d1.cache, clock)
       IN  /\ outputFiles' = local.files
           /\ priorityOutputFiles' = local.priority
           /\ parsedDataCache' = local.parsed
           /\ outputsByType' = d2.value
    /\ parsedValue' = {e \in parsedValue : e.id # id}
    /\ outputsByTypeCache' = NoGrouping
    /\ tasks' = tasks \cup {[NewTask(ncalls + 1, "delete") EXCEPT !.pc = "fetch", !.id = id]}
    /\ requests' = Append(requests, [endpoint |-> ItemEndpoint(id), method |-> "DELETE"])
    /\ served' = NotServed
    /\ UNCHANGED <<isLoadingOutputs, isPriorityLoaded, hasMoreOutputs, currentPage>>
    /\ UNCHANGED <<parseQueue, isProcessingQueue, gave>>
    /\ UNCHANGED <<coordinatorVars, logViewVars, catalogVars, outputs, keepOutputDays, lastOutputsRefresh,
                   apiCache, clock>>

\* outputsByType is a derived store: it has subscribe and no update, so the
\* call outputsByType.update(...) throws a TypeError.
derivedHasUpdate == FALSE

\* What deleteOutputFile resolves to once fetchAPI has returned response: the
\* statements after the await run inside the try block, and the catch block
\* returns false. Past the update, a response with success or data.id gives
\* true, and so does any other object, the error object included.
deleteResult(response) ==
    IF ~derivedHasUpdate THEN FALSE
    ELSE IF response.kind = "deleted" THEN TRUE
    ELSE TRUE

\* The DELETE is answered, by the server's handler or by a failure of the
\* request: the outputs cache is cleared and both stores are set to copies of
\* themselves; the call of update on the derived store then throws, and the
\* function returns false from its catch block.
DeleteAnswer(task, ok) ==
    /\ task \in tasks /\ task.fn = "delete"
    /\ returned' = [fn |-> "deleteOutputFile", data |-> <<>>,
                    success |-> deleteResult(IF ok /\ OutputModel_delete(outputs, task.id).found
                                             THEN DeletedResponse(task.id)
                                             ELSE ErrorResponse)]
    /\ LET result == OutputModel_delete(outputs, task.id)
           d1 == derive(outputFiles, priorityOutputFiles, outputsByTypeCache, clock)
           d2 == derive(outputFiles, priorityOutputFiles, d1.cache, clock)
       IN  /\ outputs' = IF ok THEN result.outputs ELSE outputs
           /\ served' = IF ok /\ result.found
                        THEN Answered(ItemEndpoint(task.id), "DELETE", "network",
                                      DeletedResponse(task.id))
                        ELSE Answered(ItemEndpoint(task.id), "DELETE", "error",
                                      ErrorResponse)
           /\ outputsByType' = d2.value
           /\ outputsByTypeCache' = d2.cache
    /\ apiCache' = clearOutputsCache(apiCache)
    /\ tasks' = tasks \ {task}
    /\ UNCHANGED <<outputFiles, priorityOutputFiles, isLoadingOutputs,
                   isPriorityLoaded, hasMoreOutputs, currentPage>>
    /\ UNCHANGED <<coordinatorVars, logViewVars, citems, parseVars, keepOutputDays, parsedDataCache,
                   lastOutputsRefresh, clock, ncalls, requests>>

\* Time passes in the browser.
Pass ==
    /\ clock < CACHE_EXPIRY + MaxTime
    /\ clock' = clock + 1
    /\ served' = NotServed
    /\ UNCHANGED <<coordinatorVars, logViewVars, catalogVars, parseVars, outputs, keepOutputDays, listVars,
                   parsedDataCache, lastOutputsRefresh, apiCache, tasks, ncalls,
                   requests>>

\* ------------------------------------------------------------- logs store
\* SELECT * FROM logs ORDER BY timestamp DESC: an entry's timestamp is taken
\* right after its id.
RECURSIVE LogModel_getAll(_)
LogModel_getAll(lg) ==
    IF lg = {} THEN <<>>
    ELSE LET top == CHOOSE l \in lg : \A m \in lg : m.id <= l.id
         IN  <<top>> \o LogModel_getAll(lg \ {top})

\* GET /api/logs and GET /api/logs-direct: every stored entry, whatever the
\* page and limit of the query string.
LogsEndpoint(path, page) == Endpoint(path, page, LOGS_PAGE_SIZE, 0, FALSE)

LogsListing(lg, endpoint) ==
    IF endpoint.path = "logs" THEN Wrapped(LogModel_getAll(lg))
    ELSE Bare(LogModel_getAll(lg))

\* loadMoreLogs up to its setTimeout(fetchData, 0): nothing when a load is
\* under way or no more entries are expected, else the flag is raised and the
\* page cursor read.
loadMoreLogs ==
    /\ ncalls < MaxCalls
    /\ ncalls' = ncalls + 1
    /\ IF isLoadingLogs \/ ~hasMoreLogs
       THEN UNCHANGED <<isLoadingLogs, tasks>>
       ELSE /\ isLoadingLogs' = TRUE
            /\ tasks' = tasks \cup {[NewTask(ncalls + 1, "logs") EXCEPT !.page = logsPage]}
    /\ served' = NotServed
    /\ UNCHANGED <<logEntries, hasMoreLogs, logsPage>>
    /\ UNCHANGED <<coordinatorVars, catalogVars, parseVars, outputs, keepOutputDays, listVars,
                   parsedDataCache, lastOutputsRefresh, apiCache, clock, requests>>

\* fetchData after the entries of a page are known: the pagination state, the
\* append to the store, the flag lowered.
ContinueLogs(task, newLogs) ==
    /\ hasMoreLogs' = IF Len(newLogs) < LOGS_PAGE_SIZE THEN FALSE ELSE hasMoreLogs
    /\ logsPage' = IF Len(newLogs) < LOGS_PAGE_SIZE THEN logsPage ELSE logsPage + 1
    /\ logEntries' = logEntries \o newLogs
    /\ isLoadingLogs' = FALSE
    /\ tasks' = tasks \ {task}

\* fetchData starts: fetchAPI on the page's endpoint answers from its cache
\* or sends the request.
LogsTimerFires(task) ==
    /\ task \in tasks /\ task.fn = "logs" /\ task.pc = "timer"
    /\ LET endpoint == LogsEndpoint("logs", task.page)
           hit == Cached(apiCache, endpoint, clock)
       IN  IF hit # {}
           THEN LET data == (CHOOSE c \in hit : TRUE).data
                IN  /\ served' = Answered(endpoint, "GET", "cache", data)
                    /\ ContinueLogs(task, data.files)
                    /\ UNCHANGED requests
           ELSE /\ tasks' = (tasks \ {task}) \cup {[task EXCEPT !.pc = "fetch"]}
                /\ requests' = Append(requests, Get(endpoint))
                /\ served' = NotServed
                /\ UNCHANGED logViewVars
    /\ UNCHANGED <<coordinatorVars, catalogVars, parseVars, outputs, keepOutputDays, listVars,
                   parsedDataCache, lastOutputsRefresh, apiCache, clock, ncalls>>

\* The request for a page of logs is answered; on fetchAPI's error object
\* fetchData calls fetchAPI on the direct endpoint.
LogsAnswer(task, ok) ==
    /\ task \in tasks /\ task.fn = "logs" /\ task.pc = "fetch"
    /\ LET endpoint == LogsEndpoint("logs", task.page)
           direct == LogsEndpoint("logs-direct", task.page)
           hit == Cached(apiCache, direct, clock)
       IN  IF ok
           THEN LET data == LogsListing(logs, endpoint)
                IN  /\ apiCache' = CacheSet(apiCache, endpoint, data, clock)
                    /\ served' = Answered(endpoint, "GET", "network", data)
                    /\ ContinueLogs(task, data.files)
                    /\ UNCHANGED requests
           ELSE IF hit # {}
           THEN LET data == (CHOOSE c \in hit : TRUE).data
                IN  /\ served' = Answered(direct, "GET", "cache", data)
                    /\ ContinueLogs(task, data.files)
                    /\ UNCHANGED <<apiCache, requests>>
           ELSE /\ tasks' = (tasks \ {task}) \cup {[task EXCEPT !.pc = "direct"]}
                /\ requests' = Append(requests, Get(direct))
                /\ served' = Answered(endpoint, "GET", "error", ErrorResponse)
                /\ UNCHANGED <<apiCache, logViewVars>>
    /\ UNCHANGED <<coordinatorVars, catalogVars, parseVars, outputs, keepOutputDays, listVars,
                   parsedDataCache, lastOutputsRefresh, clock, ncalls>>

\* The request to the direct endpoint is answered: an array, or the error
\* object, which leaves the page empty.
LogsAnswerDirect(task, ok) ==
    /\ task \in tasks /\ task.fn = "logs" /\ task.pc = "direct"
    /\ LET direct == LogsEndpoint("logs-direct", task.page)
           data == LogsListing(logs, direct)
       IN  IF ok
           THEN /\ apiCache' = CacheSet(apiCache, direct, data, clock)
                /\ served' = Answered(direct, "GET", "network", data)
                /\ ContinueLogs(task, data.files)
           ELSE /\ served' = Answered(direct, "GET", "error", ErrorResponse)
                /\ ContinueLogs(task, <<>>)
                /\ UNCHANGED apiCache
    /\ UNCHANGED <<coordinatorVars, catalogVars, parseVars, outputs, keepOutputDays, listVars,
                   parsedDataCache, lastOutputsRefresh, clock, ncalls, requests>>

\* loadSettings without a copy in localStorage: fetchAPI('/settings').
loadSettings ==
    /\ ncalls < MaxCalls
    /\ ncalls' = ncalls + 1
    /\ LET hit == Cached(apiCache, SettingsEndpoint, clock)
       IN  IF hit # {}
           THEN /\ served' = Answered(SettingsEndpoint, "GET", "cache",
                                      (CHOOSE c \in hit : TRUE).data)
                /\ UNCHANGED <<tasks, requests>>
           ELSE /\ tasks' = tasks \cup {[NewTask(ncalls + 1, "loadSettings") EXCEPT !.pc = "fetch"]}
                /\ requests' = Append(requests, Get(SettingsEndpoint))
                /\ served' = NotServed
    /\ UNCHANGED <<coordinatorVars, logViewVars, catalogVars, parseVars, outputs, keepOutputDays, listVars,
                   parsedDataCache, lastOutputsRefresh, apiCache, clock>>

\* saveSettings: fetchAPI('/settings', {method: 'POST', ...})
saveSettings(days) ==
    /\ ncalls < MaxCalls
    /\ ncalls' = ncalls + 1
    /\ tasks' = tasks \cup
          {[NewTask(ncalls + 1, "saveSettings") EXCEPT !.pc = "fetch", !.id = days]}
    /\ requests' = Append(requests, [endpoint |-> SettingsEndpoint, method |-> "POST"])
    /\ served' = NotServed
    /\ UNCHANGED <<coordinatorVars, logViewVars, catalogVars, parseVars, outputs, keepOutputDays, listVars,
                   parsedDataCache, lastOutputsRefresh, apiCache, clock>>

\* A request on '/settings' is answered by the server's handler, or fails and
\* fetchAPI returns its mock settings.
SettingsAnswer(task, ok) ==
    /\ task \in tasks /\ task.fn \in {"loadSettings", "saveSettings"}
    /\ tasks' = tasks \ {task}
    /\ IF ~ok
       THEN /\ served' = Answered(SettingsEndpoint,
                                  IF task.fn = "loadSettings" THEN "GET" ELSE "POST",
                                  "error", MockSettings)
            /\ UNCHANGED <<apiCache, keepOutputDays>>
       ELSE IF task.fn = "loadSettings"
       THEN /\ apiCache' = CacheSet(apiCache, SettingsEndpoint,
                                    SettingsResponse(keepOutputDays), clock)
            /\ served' = Answered(SettingsEndpoint, "GET", "network",
                                  SettingsResponse(keepOutputDays))
            /\ UNCHANGED keepOutputDays
       ELSE /\ keepOutputDays' = task.id
            /\ served' = Answered(SettingsEndpoint, "POST", "network",
                                  SettingsResponse(task.id))
            /\ UNCHANGED apiCache
    /\ UNCHANGED <<coordinatorVars, logViewVars, catalogVars, parseVars, outputs, listVars, parsedDataCache,
                   lastOutputsRefresh, clock, ncalls, requests>>

\* ------------------------------------------- the refresh after a run
\* key.startsWith('/outputs')
StartsWithOutputs(endpoint) ==
    endpoint.path \in {"outputs", "outputs-direct", "outputs/id"}

\* A run of runAutomationById whose script returned a screenshot ends with
\* success: the server has stored the artifact before its complete event,
\* and the client sets the timer of its refresh.  The run itself is followed
\* in ClientSpec.
RunSucceeds ==
    /\ ncalls < MaxCalls
    /\ ncalls' = ncalls + 1
    /\ outputs' = saveOutput(outputs, automations, "1", "screenshot", now)
    /\ now' = now + 1
    /\ tasks' = tasks \cup {NewTask(ncalls + 1, "refresh")}
    /\ served' = NotServed
    /\ UNCHANGED <<automations, logs, runs, last, cstatus, cdirty, reply, lineText,
                   reader, keepOutputDays>>
    /\ UNCHANGED <<catalogVars, parseVars, logViewVars, listVars, parsedDataCache,
                   lastOutputsRefresh, apiCache, clock, requests>>

\* The timer set after the run fires: loadInitialOutputs() and, when its
\* promise has settled, which is before the timer of loadPriorityOutputs
\* runs, the entries of the cache whose key starts with '/outputs' are
\* deleted.
refreshAfterRun(task) ==
    /\ task \in tasks /\ task.fn = "refresh"
    /\ IF /\ outputFiles # <<>> \/ priorityOutputFiles # <<>>
          /\ clock - lastOutputsRefresh < REFRESH_WINDOW
       THEN /\ tasks' = tasks \ {task}
            /\ UNCHANGED <<listVars, lastOutputsRefresh, parseQueue>>
       ELSE /\ lastOutputsRefresh' = clock
            /\ resetOutputPagination
            /\ isLoadingOutputs' = TRUE
            /\ tasks' = (tasks \ {task}) \cup {NewTask(task.n, "priority")}
    /\ apiCache' = {c \in apiCache : ~StartsWithOutputs(c.endpoint)}
    /\ served' = NotServed
    /\ UNCHANGED <<isProcessingQueue, parsedValue, gave>>
    /\ UNCHANGED <<coordinatorVars, logViewVars, catalogVars, outputs, keepOutputDays,
                   parsedDataCache, clock, ncalls, requests>>

\* ---------------------------------------------- background parsing
\* The file object a call of getParsedData was given.
FileOf(id) == CHOOSE f \in outputs : f.id = id

\* getParsedData(file) up to its return: null for a file without data, the
\* cached value when there is one, else a preview, the parse being left to a
\* setTimeout(..., 0).
getParsedData(file) ==
    /\ ncalls < MaxCalls
    /\ ncalls' = ncalls + 1
    /\ IF file.data = "empty"
       THEN gave' = "null" /\ UNCHANGED tasks
       ELSE IF file.id \in parsedDataCache
       THEN gave' = CacheGet(parsedValue, file.id) /\ UNCHANGED tasks
       ELSE /\ gave' = "preview"
            /\ tasks' = tasks \cup {[NewTask(ncalls + 1, "enqueue") EXCEPT !.id = file.id]}
    /\ served' = NotServed
    /\ UNCHANGED <<parseQueue, isProcessingQueue, parsedValue>>
    /\ UNCHANGED <<coordinatorVars, logViewVars, catalogVars, outputs, keepOutputDays, listVars,
                   parsedDataCache, lastOutputsRefresh, apiCache, clock, requests>>

\* The timer of getParsedData fires, timers of equal delay in the order they
\* were set: data that does not look like JSON is cached as it is, other data
\* is pushed on the queue and processParseQueue scheduled unless the flag is
\* up.
EnqueueFires(task) ==
    /\ task \in tasks /\ task.fn = "enqueue"
    /\ \A t \in tasks : t.fn = "enqueue" => task.n <= t.n
    /\ LET file == FileOf(task.id)
       IN  IF ~LooksLikeJSON(file.data)
           THEN /\ parsedDataCache' = parsedDataCache \cup {file.id}
                /\ parsedValue' = CacheValue(parsedValue, file.id, "raw")
                /\ tasks' = tasks \ {task}
                /\ UNCHANGED parseQueue
           ELSE /\ parseQueue' = Append(parseQueue,
                                        [id |-> file.id, type |-> file.type, n |-> task.n,
                                         priority |-> IF file.type = "screenshot"
                                                      THEN PRIORITY_HIGH
                                                      ELSE PRIORITY_MEDIUM])
                /\ tasks' = (tasks \ {task})
                               \cup IF isProcessingQueue THEN {}
                                    ELSE {NewTask(task.n, "process")}
                /\ UNCHANGED <<parsedDataCache, parsedValue>>
    /\ served' = NotServed
    /\ UNCHANGED <<isProcessingQueue, gave>>
    /\ UNCHANGED <<coordinatorVars, logViewVars, catalogVars, outputs, keepOutputDays, listVars,
                   lastOutputsRefresh, apiCache, clock, ncalls, requests>>

\* A scheduled processParseQueue runs: nothing while the flag is up or the
\* queue is empty; else the queue is sorted, its first item taken and parsed
\* unless cached, a screenshot refreshing the view, and the timer that lowers
\* the flag is set.
processParseQueue(task) ==
    /\ task \in tasks /\ task.fn = "process"
    /\ IF isProcessingQueue \/ parseQueue = <<>>
       THEN /\ tasks' = tasks \ {task}
            /\ UNCHANGED <<parseQueue, isProcessingQueue, parsedDataCache, parsedValue,
                           outputsByType, outputsByTypeCache>>
       ELSE LET sorted == sortByPriority(parseQueue)
                item == Head(sorted)
                file == FileOf(item.id)
                parse == item.id \notin parsedDataCache
                d == IF parse /\ Decodes(file.data) /\ item.priority = PRIORITY_HIGH
                     THEN derive(outputFiles, priorityOutputFiles, outputsByTypeCache, clock)
                     ELSE [value |-> outputsByType, cache |-> outputsByTypeCache]
            IN  /\ isProcessingQueue' = TRUE
                /\ parseQueue' = Tail(sorted)
                /\ parsedDataCache' = parsedDataCache \cup {item.id}
                /\ parsedValue' = IF ~parse THEN parsedValue
                                  ELSE CacheValue(parsedValue, item.id,
                                                  IF Decodes(file.data) THEN "decoded"
                                                  ELSE "raw")
                /\ outputsByType' = d.value
                /\ outputsByTypeCache' = d.cache
                /\ tasks' = (tasks \ {task}) \cup {NewTask(task.n, "release")}
    /\ served' = NotServed
    /\ UNCHANGED gave
    /\ UNCHANGED <<outputFiles, priorityOutputFiles, isLoadingOutputs,
                   isPriorityLoaded, hasMoreOutputs, currentPage>>
    /\ UNCHANGED <<coordinatorVars, logViewVars, catalogVars, outputs, keepOutputDays,
                   lastOutputsRefresh, apiCache, clock, ncalls, requests>>

\* The 5 ms timer of processParseQueue fires: the flag is lowered and the
\* next run scheduled when items are left.
ReleaseFires(task) ==
    /\ task \in tasks /\ task.fn = "release"
    /\ isProcessingQueue' = FALSE
    /\ tasks' = (tasks \ {task})
                   \cup IF parseQueue # <<>> THEN {NewTask(task.n, "process")} ELSE {}
    /\ served' = NotServed
    /\ UNCHANGED <<parseQueue, parsedValue, gave>>
    /\ UNCHANGED <<coordinatorVars, logViewVars, catalogVars, outputs, keepOutputDays, listVars,
                   parsedDataCache, lastOutputsRefresh, apiCache, clock, ncalls, requests>>

\* ------------------------------------------------- the automations API
\* The names crypto.randomUUID() can give: the id of no automation, and not
\* the sample's.
UUIDs == AutomationIds \ {sampleAutomation.id}

\* get(automations): the list with each automation's status
Items(list, status) ==
    [i \in 1..Len(list) |->
        [id |-> list[i].id, name |-> list[i].name, status |-> status[list[i].id]]]

\* The store module is imported: writable([]) and loadAutomations() sends
\* its request.
loadAutomations ==
    /\ ncalls' = ncalls + 1
    /\ tasks' = tasks \cup {[NewTask(ncalls + 1, "loadAutomations") EXCEPT !.pc = "fetch"]}
    /\ requests' = Append(requests, Get(AutomationsEndpoint))
    /\ served' = NotServed
    /\ UNCHANGED <<coordinatorVars, logViewVars, catalogVars, parseVars, outputs, keepOutputDays, listVars,
                   parsedDataCache, lastOutputsRefresh, apiCache, clock>>

\* The request of loadAutomations is answered: the store is set to the
\* server's automations, or to the sample when there are none or the request
\* failed, and its subscriber saves them.
automationsLoaded(task, ok) ==
    /\ task \in tasks /\ task.fn = "loadAutomations"
    /\ tasks' = tasks \ {task}
    /\ LET data == IF ok THEN Rows(automations) ELSE <<>>
           stored == Len(data) > 0
           initialData == IF stored THEN data ELSE <<sampleAutomation>>
       IN  /\ citems' = initialData
           /\ cstatus' = [id \in AutomationIds |->
                             IF id \notin Ids(initialData) THEN Absent
                             ELSE IF stored THEN automations[id] ELSE "idle"]
           /\ apiCache' = IF ok
                           THEN CacheSet(apiCache, AutomationsEndpoint,
                                         AutomationsResponse(data), clock)
                           ELSE apiCache
           /\ served' = Answered(AutomationsEndpoint, "GET",
                                  IF ok THEN "network" ELSE "error",
                                  IF ok THEN AutomationsResponse(data) ELSE ErrorResponse)
    /\ cdirty' = TRUE
    /\ UNCHANGED <<automations, logs, outputs, now, runs, last, keepOutputDays,
                   reply, lineText, reader, returned>>
    /\ UNCHANGED <<listVars, parsedDataCache, lastOutputsRefresh, clock, ncalls,
                   requests, parseVars, logViewVars>>

\* getAutomations()
getAutomations ==
    /\ returned' = [fn |-> "getAutomations", success |-> TRUE,
                    data |-> Items(citems, cstatus)]
    /\ UNCHANGED <<coordinatorVars, logViewVars, citems, outputs, keepOutputDays, browserState,
                   parseVars>>

\* The list createAutomation's updater returns: [...items, newAutomation]
withNew(items, newAutomation) == Append(items, newAutomation)

\* createAutomation(automation): the new automation gets an id of its own
\* and is put at the end of the store's list; the subscriber saves the list.
createAutomation(id, name, status) ==
    /\ id \in UUIDs /\ id \notin Ids(citems) /\ automations[id] = Absent
    /\ LET list == withNew(citems, [id |-> id, name |-> name])
       IN  /\ citems' = list
           /\ cstatus' = [i \in AutomationIds |->
                             IF i = id THEN status
                             ELSE IF i \in Ids(list) THEN cstatus[i] ELSE Absent]
    /\ cdirty' = TRUE
    /\ returned' = [fn |-> "createAutomation", success |-> TRUE,
                    data |-> <<[id |-> id, name |-> name, status |-> status]>>]
    /\ UNCHANGED <<automations, logs, outputs, now, runs, last, keepOutputDays,
                   reply, lineText, reader, browserState, parseVars, logViewVars>>

\* The logs table as earlier runs left it: up to MaxLogRows completed entries
\* of automation "1", one per millisecond.
StoredLogs ==
    /\ \E n \in 0..MaxLogRows :
          /\ logs = {[id |-> i, automationId |-> "1", status |-> "completed",
                      output |-> [error |-> FALSE, lines |-> <<>>],
                      run |-> 0, by |-> "server"] : i \in 1..n}
          /\ now = n + 1
    /\ automations = [id \in AutomationIds |-> IF id = "1" THEN "idle" ELSE Absent]
    /\ outputs = {}
    /\ runs = [r \in Runs |-> FreeRun]
    /\ last = NoSettle
    /\ cstatus = [id \in AutomationIds |-> IF id = "1" THEN "idle" ELSE Absent]
    /\ citems = Rows(cstatus)
    /\ cdirty = FALSE
    /\ keepOutputDays = InitialKeepOutputDays
    /\ reply = NoReply
    /\ lineText = [n \in 1..MaxLines |-> "plain"]
    /\ reader = IdleReader
    /\ BrowserInit

\* Repeated calls of loadMoreLogs against a server whose logs do not change.
LogsNext ==
    \/ loadMoreLogs
    \/ \E task \in tasks : LogsTimerFires(task)
    \/ \E task \in tasks, ok \in BOOLEAN : LogsAnswer(task, ok)
    \/ \E task \in tasks, ok \in BOOLEAN : LogsAnswerDirect(task, ok)
    \/ Pass

LogsSpec == StoredLogs /\ [][LogsNext]_vars

\* The stored artifacts the view is opened on: screenshots, as the sweep at
\* start-up leaves them.
ViewInit ==
    /\ StoredRows(ScreenshotVariants)
    /\ \A o \in outputs :
          /\ o.timestamp = o.id
          /\ \A id \in Stamps : id > o.id => id \in OutputIds(outputs)

\* The outputs view: loads, deletes and the background parse, as time passes.
ViewNext ==
    \/ loadInitialOutputs
    \/ loadMoreOutputs
    \/ \E task \in tasks : TimerFires(task)
    \/ \E task \in tasks : Answer(task, TRUE)
    \/ \E task \in tasks : ParseFires(task)
    \/ \E id \in Stamps : deleteOutputFile(id)
    \/ \E task \in tasks, ok \in BOOLEAN : DeleteAnswer(task, ok)
    \/ Pass

ViewSpec == ViewInit /\ [][ViewNext]_vars

\* Deletes among the loads of a view just opened, the requests failing or not.
DeleteNext ==
    \/ ncalls = 0 /\ loadInitialOutputs
    \/ loadMoreOutputs
    \/ \E task \in tasks : TimerFires(task)
    \/ \E task \in tasks : Answer(task, TRUE)
    \/ \E task \in tasks : ParseFires(task)
    \/ \E id \in Stamps : deleteOutputFile(id)
    \/ \E task \in tasks, ok \in BOOLEAN : DeleteAnswer(task, ok)

DeleteSpec == ViewInit /\ [][DeleteNext]_vars

\* The loads of the outputs store in any interleaving, nothing being deleted.
PagingNext ==
    \/ loadInitialOutputs
    \/ loadPriorityOutputs
    \/ loadMoreOutputs
    \/ \E task \in tasks : TimerFires(task)
    \/ \E task \in tasks, ok \in BOOLEAN : Answer(task, ok)
    \/ \E task \in tasks, ok \in BOOLEAN : AnswerDirect(task, ok)

PagingSpec == ViewInit /\ [][PagingNext]_vars

\* Repeated calls of loadMoreOutputs, after the initial load or without it.
MoreNext ==
    \/ ncalls = 0 /\ loadInitialOutputs
    \/ loadMoreOutputs
    \/ \E task \in tasks : TimerFires(task)
    \/ \E task \in tasks, ok \in BOOLEAN : Answer(task, ok)
    \/ \E task \in tasks, ok \in BOOLEAN : AnswerDirect(task, ok)

MoreSpec == ViewInit /\ [][MoreNext]_vars

\* The callers of fetchAPI on cached and uncached endpoints, one call at a
\* time, as time passes.
FetchNext ==
    \/ tasks = {} /\ loadSettings
    \/ tasks = {} /\ \E days \in Days : saveSettings(days)
    \/ \E task \in tasks, ok \in BOOLEAN : SettingsAnswer(task, ok)
    \/ tasks = {} /\ loadPriorityOutputs
    \/ \E task \in tasks : TimerFires(task)
    \/ \E task \in tasks, ok \in BOOLEAN : Answer(task, ok)
    \/ \E task \in tasks, ok \in BOOLEAN : AnswerDirect(task, ok)
    \/ Pass

FetchSpec == ViewInit /\ [][FetchNext]_vars

\* The browser opens on a server with some automations stored, the store
\* still empty.
CatalogInit ==
    /\ automations \in [AutomationIds -> {"idle", "completed", Absent}]
    /\ logs = {}
    /\ outputs = {}
    /\ now = 0
    /\ runs = [r \in Runs |-> FreeRun]
    /\ last = NoSettle
    /\ cstatus = [id \in AutomationIds |-> Absent]
    /\ citems = <<>>
    /\ cdirty = FALSE
    /\ keepOutputDays = InitialKeepOutputDays
    /\ reply = NoReply
    /\ lineText = [n \in 1..MaxLines |-> "plain"]
    /\ reader = IdleReader
    /\ BrowserInit

\* The automations API of the browser while the store loads.
CatalogNext ==
    \/ ncalls = 0 /\ loadAutomations
    \/ ncalls > 0 /\ getAutomations
    \/ ncalls > 0 /\ \E id \in AutomationIds, name \in {"Test Automation", "Other"},
                          status \in {"idle", "completed"} :
                        createAutomation(id, name, status)
    \/ \E task \in tasks, ok \in BOOLEAN : automationsLoaded(task, ok)

CatalogSpec == CatalogInit /\ [][CatalogNext]_vars

\* The view is opened and refreshed: calls of loadInitialOutputs only, their
\* timers and answers, as time passes.
InitialNext ==
    \/ loadInitialOutputs
    \/ \E task \in tasks : TimerFires(task)
    \/ \E task \in tasks, ok \in BOOLEAN : Answer(task, ok)
    \/ \E task \in tasks, ok \in BOOLEAN : AnswerDirect(task, ok)
    \/ Pass

InitialSpec == ViewInit /\ [][InitialNext]_vars

\* The view is open while runs succeed and start their refresh; the server
\* answers every request.
RefreshNext ==
    \/ loadInitialOutputs
    \/ RunSucceeds
    \/ \E task \in tasks : refreshAfterRun(task)
    \/ \E task \in tasks : TimerFires(task)
    \/ \E task \in tasks : Answer(task, TRUE)
    \/ Pass

RefreshSpec == ViewInit /\ [][RefreshNext]_vars

\* The files the view holds when it starts to show them, one of each kind:
\* screenshots of the run handler, and what other writers of the table left.
FileVariants ==
    <<[type |-> "screenshot", data |-> "object"],
      [type |-> "screenshot", data |-> "broken"],
      [type |-> "text", data |-> "object"],
      [type |-> "text", data |-> "broken"],
      [type |-> "text", data |-> "scalar"],
      [type |-> "text", data |-> "text"],
      [type |-> "text", data |-> "empty"]>>

ParseInit ==
    /\ automations = [id \in AutomationIds |-> "idle"]
    /\ logs = {}
    /\ outputs = {[id |-> i, automationId |-> "1", type |-> FileVariants[i].type,
                    timestamp |-> i, data |-> FileVariants[i].data] :
                      i \in 1..Len(FileVariants)}
    /\ now = Horizon
    /\ runs = [r \in Runs |-> FreeRun]
    /\ last = NoSettle
    /\ cstatus = [id \in AutomationIds |-> "idle"]
    /\ citems = Rows(cstatus)
    /\ cdirty = FALSE
    /\ keepOutputDays = InitialKeepOutputDays
    /\ reply = NoReply
    /\ lineText = [n \in 1..MaxLines |-> "plain"]
    /\ reader = IdleReader
    /\ outputFiles = OrderByTimestampDesc(outputs)
    /\ priorityOutputFiles = <<>>
    /\ parsedDataCache = {}
    /\ outputsByTypeCache = NoGrouping
    /\ outputsByType = Grouping(outputFiles, <<>>)
    /\ isLoadingOutputs = FALSE
    /\ isPriorityLoaded = FALSE
    /\ hasMoreOutputs = FALSE
    /\ currentPage = 1
    /\ lastOutputsRefresh = 0
    /\ apiCache = {}
    /\ clock = CACHE_EXPIRY
    /\ tasks = {}
    /\ ncalls = 0
    /\ requests = <<>>
    /\ served = NotServed
    /\ returned = NoReturn
    /\ parseQueue = <<>>
    /\ isProcessingQueue = FALSE
    /\ parsedValue = {}
    /\ gave = "none"
    /\ logEntries = <<>>
    /\ isLoadingLogs = FALSE
    /\ hasMoreLogs = TRUE
    /\ logsPage = 1

\* The view asks for the data of its files while the queue is drained.
ParseNext ==
    \/ \E file \in outputs : getParsedData(file)
    \/ \E task \in tasks : EnqueueFires(task)
    \/ \E task \in tasks : processParseQueue(task)
    \/ \E task \in tasks : ReleaseFires(task)

ParseSpec == ParseInit /\ [][ParseNext]_vars

\* ------------------------------------------------------------------ claims
\* C1: every accepted submission gets a complete event and its stream is
\* closed; stated of the handler that has run to its end, after which
\* nothing completes or ends the stream.
C1_EveryRunCompletes ==
    \A r \in Runs :
        runs[r].pc \in {"done", "aborted"} =>
            HasComplete(runs[r].stream) /\ runs[r].ended

\* C2: on every stream the event types written are a prefix of
\* status log* complete, also with overlapping runs.
C2_StreamShape ==
    \A r \in Runs :
        LET stream == runs[r].stream
        IN  stream # <<>> =>
              /\ stream[1] = StatusEvent
              /\ \A i \in 2..Len(stream) :
                    \/ stream[i].type = "log"
                    \/ stream[i].type = "complete" /\ i = Len(stream)

\* Two runs of one automation overlap, one already completed, the other
\* still logging.
C2_Witness ==
    \E r, q \in Runs :
        /\ r # q /\ runs[r].id = runs[q].id
        /\ HasComplete(runs[r].stream) /\ Len(runs[r].stream) >= 3
        /\ runs[q].pc = "script" /\ Len(runs[q].stream) >= 2

\* C3: once the complete event is on a stream, the stream never changes,
\* whatever the script's leftover work logs.
C3_NoWriteAfterComplete ==
    [][\A r \in Runs :
          HasComplete(runs[r].stream) => runs'[r].stream = runs[r].stream]_vars

\* The logger was called after the complete event and the end of the stream.
C3_Witness ==
    \E r \in Runs :
        /\ runs[r].ended /\ HasComplete(runs[r].stream)
        /\ runs[r].nlogged > Len(LogLines(runs[r].stream))

\* C4: a run whose run() resolves ends with a terminal event success=true
\* and the automation's status completed.
C4_ResolvedMeansSuccess ==
    [][\A r \in Runs :
          (last'.run = r /\ last'.outcome = "resolve") =>
              /\ HasComplete(runs'[r].stream)
              /\ Terminal(runs'[r].stream).success
              /\ automations'[runs[r].id] = "completed"]_vars

\* C5: a run whose script throws ends with a terminal event success=false,
\* status failed and a failed log entry holding the error message and the
\* lines captured before the throw.
C5_ThrownMeansFailedEntry ==
    [][\A r \in Runs :
          (last'.run = r /\ last'.outcome \in {"throw", "throwNull"}) =>
              /\ HasComplete(runs'[r].stream)
              /\ ~Terminal(runs'[r].stream).success
              /\ automations'[runs[r].id] = "failed"
              /\ \E l \in logs' :
                    /\ l.run = r /\ l.status = "failed"
                    /\ l.output = [error |-> TRUE, lines |-> Lines(runs[r].nlogged)]]_vars

\* C6: a terminated run has exactly one log entry, counting the server's and
\* the client's, and its status is the run's outcome.
C6_ExactlyOneLogEntry ==
    \A r \in Runs :
        runs[r].pc = "done" =>
            /\ Cardinality({l \in logs : l.run = r}) = 1
            /\ \A l \in logs :
                  l.run = r =>
                      l.status = IF Terminal(runs[r].stream).success
                                 THEN "completed" ELSE "failed"

\* C7: when run() resolved and the insert of the log entry or of the
\* artifact fails, the terminal event still has success=true and the status
\* is completed.
C7_PersistenceFailureKeepsSuccess ==
    [][\A r \in Runs :
          ( /\ last'.run = r /\ last'.outcome = "resolve"
            /\ last'.result # "circular"
            /\ getById(automations, runs[r].id)
            /\ \/ now \in LogIds(logs)
               \/ last'.result = "shot" /\ now \in OutputIds(outputs) ) =>
              /\ HasComplete(runs'[r].stream)
              /\ Terminal(runs'[r].stream).success
              /\ automations'[runs[r].id] = "completed"]_vars

\* C8: every change of an automation's status, on the server and in the
\* client store, is one of the five transitions of the life cycle.
Lifecycle ==
    {<<"idle", "running">>, <<"running", "completed">>, <<"running", "failed">>,
     <<"completed", "idle">>, <<"failed", "idle">>}

C8_StatusTransitions ==
    [][\A id \in AutomationIds :
          /\ automations'[id] # automations[id] =>
                <<automations[id], automations'[id]>> \in Lifecycle
          /\ cstatus'[id] # cstatus[id] =>
                <<cstatus[id], cstatus'[id]>> \in Lifecycle]_vars

\* C9: after a run ended with completed or failed the status returns to idle;
\* stated of the states in which no handler, reader, timer or save is left
\* that could still write it.
Quiet ==
    /\ \A r \in Runs : runs[r].pc # "script" /\ runs[r].cpc \in {"none", "fin"}
    /\ ~cdirty

C9_ReturnsToIdle ==
    Quiet => \A id \in AutomationIds : automations[id] \notin {"completed", "failed"}

\* C10: a submission with an empty or missing script is answered 400 with no
\* stream: no event on it then or later, and the step changes no automation,
\* log entry or artifact.
C10_EmptyScriptRejected ==
    [][\A r \in Runs :
          (runs'[r].pc # "free" /\ runs'[r].script = "empty") =>
              /\ runs'[r].http = 400
              /\ runs'[r].stream = <<>>
              /\ runs[r].pc = "free" =>
                    /\ automations' = automations
                    /\ logs' = logs
                    /\ outputs' = outputs]_vars

\* An empty script was rejected while another run of the same automation is
\* in flight.
C10_Witness ==
    \E r, q \in Runs :
        /\ runs[r].pc = "rejected" /\ runs[r].http = 400
        /\ runs[q].pc = "script" /\ runs[q].id = runs[r].id

\* C11: a step adds an artifact only when it settles a run that resolved with
\* a screenshot payload; it adds at most one, of type "screenshot", for the
\* run's automation.
C11_ArtifactOnlyForScreenshot ==
    [][/\ Cardinality(outputs' \ outputs) <= 1
       /\ \A o \in outputs' \ outputs :
             /\ o.type = "screenshot"
             /\ last'.outcome = "resolve" /\ last'.result = "shot"
             /\ o.automationId = runs[last'.run].id]_vars

\* Two runs have ended with a log entry each and only one of them left an
\* artifact.
C11_Witness ==
    /\ Cardinality(outputs) = 1
    /\ Cardinality(logs) = 2
    /\ \A r \in Runs : runs[r].pc = "done"

\* C12: a run of a stored automation that resolves with a screenshot payload
\* leaves a new artifact of type "screenshot" for its automation, however
\* close in time the writes are.
C12_ScreenshotAlwaysStored ==
    [][\A r \in Runs :
          ( /\ last'.run = r /\ last'.outcome = "resolve" /\ last'.result = "shot"
            /\ getById(automations, runs[r].id) ) =>
              \E o \in outputs' \ outputs :
                  o.type = "screenshot" /\ o.automationId = runs[r].id]_vars

\* C13: after a sweep with window D no artifact of another type than
\* "screenshot" and no artifact older than D days is stored.
C13_SweepRemovesOldAndOtherTypes ==
    [][reply'.op = "cleanup" =>
          \A o \in outputs' :
              /\ o.type = "screenshot"
              /\ ~(o.timestamp < now - reply'.days * Day)]_vars

\* A sweep removed rows for their age and rows for their type, some for both,
\* and left others.
C13_Witness ==
    /\ reply.op = "cleanup"
    /\ reply.oldOutputsRemoved > 0 /\ reply.nonScreenshotsRemoved > 0
    /\ reply.deleted < reply.oldOutputsRemoved + reply.nonScreenshotsRemoved
    /\ outputs # {}

\* C14: a sweep with window D removes nothing else: every screenshot not
\* older than D days is still stored unchanged, no row is added, and
\* automations and log entries are as before.
C14_SweepKeepsTheRest ==
    [][reply'.op = "cleanup" =>
          /\ \A o \in outputs :
                (o.type = "screenshot" /\ o.timestamp >= now - reply'.days * Day) =>
                    o \in outputs'
          /\ outputs' \subseteq outputs
          /\ automations' = automations
          /\ logs' = logs]_vars

\* A sweep deleted something and kept a screenshot that is exactly D days old.
C14_Witness ==
    /\ reply.op = "cleanup" /\ reply.deleted > 0
    /\ \E o \in outputs : o.timestamp = now - reply.days * Day

IsDescending(files) ==
    \A i, j \in 1..Len(files) : i < j => files[i].timestamp >= files[j].timestamp

NoRepeat(files) ==
    \A i, j \in 1..Len(files) : i # j => files[i].id # files[j].id

RECURSIVE PagesUpTo(_, _, _, _)
PagesUpTo(outs, page, limit, skip) ==
    IF page = 0 THEN <<>>
    ELSE PagesUpTo(outs, page - 1, limit, skip) \o getAll(outs, page, limit, skip).files

\* C15: on a fixed set of artifacts the priority slice (page 1, limit N)
\* followed by the pages 1..p fetched with limit L and skip N (N = 0: the
\* plain pages 1..p) lists the newest artifacts once each, without a gap and
\* by timestamp descending; the answer at hand is the last of these pages.
C15_PagesTileTheListing ==
    reply.op = "list" =>
        LET slice == getAll(outputs, 1, reply.skip, 0).files
            merged == slice \o PagesUpTo(outputs, reply.page, reply.limit, reply.skip)
            listed == {merged[i] : i \in 1..Len(merged)}
        IN  /\ reply.files = getAll(outputs, reply.page, reply.limit, reply.skip).files
            /\ NoRepeat(merged)
            /\ IsDescending(merged)
            /\ listed \subseteq outputs
            /\ Len(merged) = Min(reply.skip + reply.page * reply.limit, reply.total)
            /\ \A o \in outputs \ listed, m \in listed : o.timestamp <= m.timestamp

\* Page 2 after a priority slice holds rows, among them one of a pair of equal
\* timestamps.
C15_Witness ==
    /\ reply.op = "list" /\ reply.page = 2 /\ reply.skip > 0
    /\ reply.files # <<>>
    /\ \E o, q \in outputs : o.id # q.id /\ o.timestamp = q.timestamp

\* C16: a listing whose offset is at or past the total answers with an empty
\* page and hasMore = false.
C16_PastTheEndHasNoMore ==
    ( /\ reply.op = "list"
      /\ (reply.page - 1) * reply.limit + reply.skip >= reply.total ) =>
        /\ reply.files = <<>>
        /\ ~reply.hasMore

\* C17: a delete by id removes that row and no other and answers 200; for an
\* id that is not stored it answers 404 and changes nothing.
C17_DeleteExactlyOne ==
    [][reply'.op = "delete" =>
          /\ IF reply'.id \in OutputIds(outputs)
             THEN /\ reply'.status = 200
                  /\ outputs' = {o \in outputs : o.id # reply'.id}
                  /\ Cardinality(outputs') = Cardinality(outputs) - 1
             ELSE /\ reply'.status = 404
                  /\ outputs' = outputs
          /\ automations' = automations
          /\ logs' = logs]_vars

\* The same id was deleted a second time, with other rows stored.
C17_Witness ==
    /\ reply.op = "delete" /\ reply.repeat /\ reply.status = 404
    /\ outputs # {}

\* C18: every stored artifact references an automation that exists.
C18_ArtifactsReferenceAutomations ==
    \A o \in outputs : automations[o.automationId] # Absent

\* An automation was deleted after its run had ended, and the cascade took
\* its rows, while the run of another automation keeps its artifact.
C18_Witness ==
    /\ reply.op = "deleteAutomation" /\ reply.status = 200
    /\ outputs # {} /\ Cardinality(logs) = 1
    /\ \E r, q \in Runs :
          /\ runs[r].pc = "done" /\ automations[runs[r].id] = Absent
          /\ runs[q].pc = "done" /\ automations[runs[q].id] # Absent
          /\ Terminal(runs[r].stream).success
          /\ Terminal(runs[q].stream).success

\* Whether every line of a sequence of lines comes after the one before it in
\* the order of the logger's calls.
InCallOrder(lines) ==
    \A i, j \in 1..Len(lines) : i < j => lines[i] < lines[j]

\* C19: within one run the log events on the stream are in the order of the
\* logger's calls, the persisted log entry holds the lines in that order, and
\* the client's live output holds lines of the stream in that order.
C19_LogOrder ==
    /\ \A r \in Runs :
          LET onStream == LogLines(runs[r].stream)
          IN  /\ onStream = Lines(Len(onStream))
              /\ ~runs[r].ended => onStream = Lines(runs[r].nlogged)
    /\ \A l \in logs :
          l.by = "server" => l.output.lines = LogLines(runs[l.run].stream)
    /\ InCallOrder(reader.output)
    /\ \A i \in 1..Len(reader.output) :
          \E j \in 1..Len(runs[FirstRun].stream) :
             runs[FirstRun].stream[j] = LogEvent(reader.output[i])

\* The client resolved a run after showing two lines that the server also
\* persisted.
C19_Witness ==
    /\ reader.state = "resolved"
    /\ Len(reader.output) >= 2
    /\ \E l \in logs : l.by = "server" /\ l.output.lines = reader.output

\* The number of events whose frames lie wholly within the first pos pieces
\* of the stream's text.
FramesWithin(stream, pos) ==
    Cardinality({n \in 1..Len(stream) : Len(EncodeUpTo(stream, n)) <= pos})

\* C20: however the stream is cut into chunks, the events the client has
\* decoded are the events whose frames it has received in full, each once and
\* in the order the server wrote them.
C20_DecodesWhatWasWritten ==
    reader.decoded =
        SubSeq(runs[FirstRun].stream, 1,
               FramesWithin(runs[FirstRun].stream, reader.pos))

\* C21: when the client stops waiting for a run whose script has not settled
\* (no complete event came within the 120 s), the automation is marked failed
\* on the client and the server goes on with the run.
C21_TimeoutIsFailure ==
    [][\A r \in Runs :
          (/\ runs[r].pc = "script"
           /\ runs[r].cpc = "wait" /\ runs'[r].cpc = "timer")
          => /\ cstatus'[runs[r].id] = "failed"
             /\ runs'[r].pc = "script"]_vars

\* C22: the call of deleteOutputFile(id) takes id out of outputFiles, of
\* priorityOutputFiles and of the parsed-data cache, before the request is
\* answered, and the answer, failed or not, puts nothing back into them.
C22_OptimisticRemoval ==
    [][/\ \A task \in tasks' \ tasks :
             task.fn = "delete"
             => /\ task.id \notin Ids(outputFiles')
                /\ task.id \notin Ids(priorityOutputFiles')
                /\ task.id \notin parsedDataCache'
       /\ \A task \in tasks \ tasks' :
             task.fn = "delete"
             => /\ outputFiles' = outputFiles
                /\ priorityOutputFiles' = priorityOutputFiles
                /\ parsedDataCache' = parsedDataCache]_vars

\* The delete of the newest artifact failed: the server still has the row,
\* and the priority slice, loaded and since emptied of it, does not.
C22_Witness ==
    /\ served.method = "DELETE" /\ served.from = "error"
    /\ served.endpoint.page \in OutputIds(outputs)
    /\ \A id \in OutputIds(outputs) : id <= served.endpoint.page
    /\ isPriorityLoaded
    /\ served.endpoint.page \notin Ids(priorityOutputFiles) \cup Ids(outputFiles)
    /\ \E r \in 1..Len(requests) :
          /\ requests[r] = Get(PriorityEndpoint("outputs"))
          /\ \E q \in (r + 1)..Len(requests) : requests[q].method = "DELETE"

\* C23: once a delete of an artifact is started, no listing response cached
\* before it can still be served: the cache holds no unexpired entry of an
\* outputs endpoint when deleteOutputFile has been called.
C23_DeleteInvalidatesListings ==
    [][\A task \in tasks' \ tasks :
          task.fn = "delete"
          => \A c \in apiCache' :
                HoldsOutput(c.endpoint) => ~(clock' - c.timestamp < CACHE_EXPIRY)]_vars

\* C24: the grouped-by-type view is the grouping of the two lists as they
\* are now.
C24_GroupingFollowsLists ==
    outputsByType = Grouping(outputFiles, priorityOutputFiles)

\* C25: against an unchanging listing, under any interleaving of the loads,
\* no artifact is twice in outputFiles or in both lists, and the artifacts
\* loaded are the listing's first ones with none skipped.
C25_NoDuplicateNoGap ==
    LET all == priorityOutputFiles \o outputFiles
        listing == OrderByTimestampDesc(outputs)
    IN  /\ \A i, j \in 1..Len(all) : i # j => all[i].id # all[j].id
        /\ Ids(all) = {listing[i].id : i \in 1..Cardinality(Ids(all))}

\* C26: when the value run() resolved to names a screenshot file, the
\* screenshotFilename of the complete event is that name, whatever file names
\* the logged lines held.
C26_ResultNamesTheScreenshot ==
    \A r \in Runs :
       (/\ last.run = r /\ last.outcome = "resolve" /\ NameOf(last.result) # "none"
        /\ runs[r].pc = "done" /\ Terminal(runs[r].stream).success)
       => runs[r].sent = NameOf(last.result)

\* A createAutomation step returns success with the given name and an id no
\* automation of the store had, and puts the automation at the end of the
\* list, keeping what the list held.
CreateStep ==
    [][returned'.fn = "createAutomation" /\ returned' # returned
          => /\ returned'.success
             /\ returned'.data[1].id \notin Ids(citems)
             /\ Len(citems') = Len(citems) + 1
             /\ SubSeq(citems', 1, Len(citems)) = citems
             /\ Items(citems', cstatus')[Len(citems')] = returned'.data[1]]_vars

\* C27: createAutomation adds the automation to the store, so that a
\* getAutomations that follows returns a list containing it: while
\* createAutomation's answer is the latest answer of the API, the store's
\* list, which getAutomations returns, holds the automation it returned.
C27_CreatedIsListed ==
    returned.fn = "createAutomation"
        => /\ returned.success
           /\ \E i \in 1..Len(citems) :
                  Items(citems, cstatus)[i] = returned.data[1]

\* The page requests sent so far, and the pages they ask for.
PageRequests(reqs) ==
    SelectSeq(reqs, LAMBDA q : q.endpoint.path = "outputs" /\ ~q.endpoint.sort)

ListingRequests(reqs) ==
    SelectSeq(reqs, LAMBDA q : q.endpoint.path \in {"outputs", "outputs-direct"}
                                  /\ ~q.endpoint.sort)

\* A loadMoreOutputs whose load ends with this step.
MoreEnds(task) ==
    /\ task \in tasks /\ task.fn = "more"
    /\ \A t \in tasks' : ~(t.fn = "more" /\ t.n = task.n)

\* C28: against an unchanging listing, loadMoreOutputs asks for pages in
\* increasing order; the load that obtains fewer than PAGE_SIZE items (none,
\* when its requests failed) sets hasMoreOutputs to false and any other moves
\* to the next page; once hasMoreOutputs is false no request is sent; so the
\* number of page requests is bounded by the size of the listing.
C28_PaginationEnds ==
    [][/\ LET pages == PageRequests(requests')
              all == ListingRequests(requests')
          IN  /\ \A i, j \in 1..Len(pages) :
                    i < j => pages[i].endpoint.page < pages[j].endpoint.page
              /\ \A i, j \in 1..Len(all) :
                    i < j => all[i].endpoint.page <= all[j].endpoint.page
              /\ Len(pages) <= (Cardinality(outputs) \div PAGE_SIZE) + 1
       /\ \A task \in tasks :
             MoreEnds(task) =>
                IF Len(served'.data.files) < PAGE_SIZE
                THEN ~hasMoreOutputs' /\ currentPage' = currentPage
                ELSE hasMoreOutputs' = hasMoreOutputs /\ currentPage' = currentPage + 1
       /\ ~hasMoreOutputs => requests' = requests /\ ~hasMoreOutputs'
      ]_vars

\* C28 witness: a full page and then a short one were loaded, which ended the
\* pagination, and a later call sent nothing.
C28_Witness ==
    /\ ~hasMoreOutputs
    /\ currentPage = 2
    /\ Len(PageRequests(requests)) = 2
    /\ ncalls = MaxCalls
    /\ \A t \in tasks : t.fn = "parse"

\* C29: the retention sweep uses the configured keepOutputDays as its window
\* for every configured value: the window of the latest sweep is the value of
\* the keepOutputDays row.
C29_WindowIsConfigured ==
    reply.op = "cleanup" => reply.days = keepOutputDays

\* C30: fetchAPI answers from its cache only a GET, and only with the entry
\* stored for exactly that endpoint less than CACHE_EXPIRY ago; an entry is
\* stored only by a GET that the server answered, under its endpoint and with
\* the time of the answer; a request that failed leaves the cache as it was.
C30_CacheOnlyFreshGets ==
    [][/\ served'.from = "cache" =>
             /\ served'.method = "GET"
             /\ \E c \in apiCache :
                   /\ c.endpoint = served'.endpoint
                   /\ c.data = served'.data
                   /\ clock - c.timestamp < CACHE_EXPIRY
       /\ served'.method \notin {"GET", "none"} => served'.from \in {"network", "error"}
       /\ apiCache' # apiCache =>
             /\ served'.method = "GET" /\ served'.from = "network"
             /\ apiCache' = CacheSet(apiCache, served'.endpoint, served'.data, clock)
       /\ served'.from = "error" => apiCache' = apiCache
      ]_vars

\* C30 witness: a GET on '/settings' is answered from the cache while the
\* entry of an earlier listing has outlived CACHE_EXPIRY.
C30_Witness ==
    /\ served.from = "cache"
    /\ served.endpoint = SettingsEndpoint
    /\ \E c \in apiCache : clock - c.timestamp >= CACHE_EXPIRY

\* A POST on '/settings' is sent to the server although a fresh entry for
\* '/settings' is in the cache.
PostPastCache ==
    /\ served.method = "POST" /\ served.from = "network"
    /\ Cached(apiCache, SettingsEndpoint, clock) # {}

\* The entries of a queue.
Entries(queue) == {queue[i] : i \in 1..Len(queue)}

\* A step in which processParseQueue takes an item.
Takes == ~isProcessingQueue /\ isProcessingQueue'

\* C31: the item processParseQueue takes is a screenshot entry whenever the
\* queue holds one, and among the entries of its priority it is the one
\* that was queued first.
C31_ScreenshotsFirst ==
    [][Takes =>
          \E item \in Entries(parseQueue) :
             /\ Entries(parseQueue') = Entries(parseQueue) \ {item}
             /\ \A e \in Entries(parseQueue) :
                   /\ e.type = "screenshot" => item.type = "screenshot"
                   /\ e.priority = item.priority => item.n <= e.n]_vars

\* C31 witness: a screenshot entry has been taken and parsed while the entry
\* of the first call, of another type and queued before it, is still in the
\* queue.
C31_Witness ==
    /\ isProcessingQueue
    /\ \E e \in Entries(parseQueue), v \in parsedValue :
          /\ e.type # "screenshot" /\ e.n = 1
          /\ FileOf(v.id).type = "screenshot"
          /\ v.value = "decoded"

\* While items are queued a run of processParseQueue or the timer that
\* schedules it is pending, and a file called for stays on its way to the
\* cache: on a timer, in the queue, or cached.
QueueIsServed ==
    /\ parseQueue # <<>> => \E t \in tasks : t.fn \in {"process", "release"}
    /\ isProcessingQueue <=> \E t \in tasks : t.fn = "release"
    /\ parsedDataCache = {v.id : v \in parsedValue}

\* C32: an artifact gets one cache entry, the JSON-decoded value of its data,
\* or the raw string when the data does not decode, and getParsedData then
\* returns that entry.
C32_CachedAsDecoded ==
    /\ \A v, w \in parsedValue : v.id = w.id => v = w
    /\ \A v \in parsedValue :
          v.value = IF Decodes(FileOf(v.id).data) THEN "decoded" ELSE "raw"
    /\ gave \in {"decoded", "raw"} => \E v \in parsedValue : v.value = gave

\* No load is on a timer or awaits an answer.
LoadsSettled == \A t \in tasks : t.fn \notin {"priority", "more"}

Requested(endpoint) == \E i \in 1..Len(requests) : requests[i] = Get(endpoint)

\* C33: once a loadInitialOutputs call has been made and its timers and
\* requests have run, the priority slice and the first general page, with
\* skip equal to the size of the priority slice, have been requested.
C33_InitialLoadsBoth ==
    ncalls > 0 /\ LoadsSettled
        => /\ Requested(PriorityEndpoint("outputs"))
           /\ Requested(PageEndpoint("outputs", 1, PRIORITY_FILES_COUNT))

\* The artifact of the latest run.
LatestArtifact == now - 1

\* C34: once the refresh started by a successful run and its loads have
\* run, the artifact the run persisted is in the refreshed lists.
C34_RefreshShowsArtifact ==
    (/\ now > Horizon
     /\ \A t \in tasks : t.fn \notin {"refresh", "priority", "more"})
        => LatestArtifact \in Ids(priorityOutputFiles) \cup Ids(outputFiles)

\* C35: deleteOutputFile resolves to true when the server confirmed the
\* deletion with {success: true, data: {id}} and to false when it answered
\* not-found or an error.
C35_ResolvesByAnswer ==
    returned.fn = "deleteOutputFile"
        => (returned.success <=> (served.data.kind = "deleted"))

\* The status that stands for the outcome of a settled script.
StatusOf(outcome) == IF outcome = "resolve" THEN "completed" ELSE "failed"

\* A settlement the handler has a path for: run() resolved to a value that
\* can be serialised, or threw an error.
Ordinary(settle) ==
    /\ settle.outcome \in {"resolve", "throw"}
    /\ settle.result \in {"none", "plain", "shot"}

\* C36: when a run of an automation that had another run in flight settles,
\* it gets its own terminal event and its own log entry, no stored entry is
\* lost, and the stored status is the outcome of this run, the last to end.
C36_OverlappingRunsKeepTheirs ==
    [][\A r \in Runs :
          (/\ last'.run = r
           /\ Ordinary(last')
           /\ \E q \in Runs \ {r} : runs[q].pc \in {"script", "done", "aborted"}
                                       /\ runs[q].script = "ok")
              => /\ HasComplete(runs'[r].stream)
                 /\ Terminal(runs'[r].stream).success = (last'.outcome = "resolve")
                 /\ \E l \in logs' \ logs :
                       /\ l.run = r
                       /\ l.status = StatusOf(last'.outcome)
                 /\ logs \subseteq logs'
                 /\ automations'[runs[r].id] = StatusOf(last'.outcome)]_vars

\* C37: the client marks a run completed only when the stream of that run
\* has delivered a complete event with success=true.
C37_SuccessOnlyFromStream ==
    [][\A r \in Runs :
          (/\ runs[r].cpc = "wait" /\ runs'[r].cpc = "timer"
           /\ cstatus'[runs[r].id] = "completed")
          => /\ HasComplete(runs[r].stream)
             /\ Terminal(runs[r].stream).success]_vars

\* C38: the status is running in the client store only through a run that
\* was started after the run whose idle timer fires had ended; the timer
\* leaves that status as it is.
C38_ResetSparesLaterRun ==
    [][\A q \in Runs :
          (/\ runs[q].cpc = "timer" /\ runs'[q].cpc = "fin"
           /\ cstatus[runs[q].id] = "running"
           /\ \E r \in Runs \ {q} : runs[r].id = runs[q].id /\ runs[r].cpc = "wait")
          => cstatus'[runs[q].id] = "running"]_vars

\* C39: no log entry is in the logs list twice, and the page cursor never
\* passes the pages the stored entries fill, so that the pagination ends.
C39_LogsOnceAndEnds ==
    /\ \A i, j \in 1..Len(logEntries) : i # j => logEntries[i].id # logEntries[j].id
    /\ (logsPage - 1) * LOGS_PAGE_SIZE <= Cardinality(logs)

\* The loads whose listing request is sent and not yet answered.
Outstanding == {t \in tasks : t.fn \in {"priority", "more"} /\ t.pc \in {"fetch", "direct"}}

\* C40: isLoadingOutputs is true while a listing request is outstanding, at
\* most one request for a general page is outstanding, and no two of them are
\* for the same page.
C40_FlagCoversFetches ==
    /\ Outstanding # {} => isLoadingOutputs
    /\ \A t, u \in Outstanding :
          (t.fn = "more" /\ u.fn = "more") => t = u

====
